---- MODULE Spec2Model ----
(***************************************************************************)
(* Session lifecycle engine of the client (controllers/session.ts): two    *)
(* peers, A (initiator) and B (responder), each with a pending store, a    *)
(* settled store and a request history, talking over an at-least-once,     *)
(* unordered relay; and two services of the relay server: the subscription *)
(* registry (SubscriptionService) and the cursor scan of the redis service *)
(* (RedisService.sscan).                                                   *)
(***************************************************************************)
EXTENDS Integers, Sequences, FiniteSets, TLC

VARIABLES
  pending,   \* pending[x]  : topic -> pending record        (Session.pending)
  settled,   \* settled[x]  : topic -> settled record        (Session.settled)
  history,   \* history[x]  : sequence of history entries    (Session.history)
  events,    \* events[x]   : <<kind, topic, id>> -> number of emissions
  net,       \* relay / pairing messages published and not yet dropped
  dups,      \* redeliveries the relay has made so far
  tasks,     \* suspended handlers (continuations after an await)
  create,    \* the initiator's create() call: stage, result, timer
  last,      \* outcome of the latest public call
  nextKey,   \* next private key generateKeyPair hands out
  nextId,    \* nextId[x]: how many JSON-RPC ids payloadId has handed out on peer x, plus one
  requests,  \* requests[x]: id -> the request() call waiting for its response
  subscriptions, \* SubscriptionService.subscriptions: sequence of {id, topic, socketId}
  channels,  \* topics that have a broadcast channel in redis
  scan       \* the sscan call of the redis service: cursor asked for, members read, outcome

\* the relay server's variables and the client's
server == <<subscriptions, channels, scan>>
client == <<pending, settled, history, events, net, dups, tasks, create, last,
            nextKey, nextId, requests>>

vars == <<pending, settled, history, events, net, dups, tasks, create, last,
          nextKey, nextId, requests, subscriptions, channels, scan>>

----------------------------------------------------------------------------
\* Bounds of the model
MaxKeys == 3        \* key pairs generated in one run (1 propose + responds)
MaxIds == 2         \* JSON-RPC requests generated in one run
MaxDups == 1        \* relay redeliveries in one run

Peers == {"A", "B"}
Other(x) == IF x = "A" THEN "B" ELSE "A"
Initiator == "A"
Responder == "B"

Absent == "absent"                       \* JavaScript undefined
Relay == "waku"                          \* proposal.relay
Chains == {"c1", "c2"}
Methods == {"m1", "m2"}
Types == {"n1", "n2"}

\* SESSION_JSONRPC: the built-in session methods
SESSION_JSONRPC == {"wc_sessionPropose", "wc_sessionApprove", "wc_sessionReject",
                    "wc_sessionUpdate", "wc_sessionUpgrade", "wc_sessionDelete",
                    "wc_sessionPayload", "wc_sessionNotification", "wc_sessionPing"}

Range(s) == {s[i] : i \in DOMAIN s}
Includes(s, e) == e \in Range(s)         \* Array.prototype.includes

----------------------------------------------------------------------------
\* Crypto capability (client.crypto): Diffie-Hellman over a small group.
DHPrime == 23
DHGen == 5

RECURSIVE PowMod(_, _)
PowMod(b, e) == IF e = 0 THEN 1 ELSE (b * PowMod(b, e - 1)) % DHPrime

\* the public key of a generated private key
PublicKey(priv) == PowMod(DHGen, priv)
\* the keychain lookup of the private key stored for a public key
PrivateKey(pub) == CHOOSE k \in 1..(DHPrime - 1) : PublicKey(k) = pub
\* deriveSharedKey(privateKey, peerPublicKey)
deriveSharedKey(priv, peerPub) == PowMod(peerPub, priv)
\* generateSharedKey(self, peer): topic = hash of the shared key
generateSharedKey(self, peer) == deriveSharedKey(PrivateKey(self.publicKey), peer.publicKey)

\* generateRandomBytes32(): the pending topic of the proposal
ProposalTopic == 100

----------------------------------------------------------------------------
\* Subscription store (controllers/subscription): topic -> record
Has(store, t) == t \in DOMAIN store
StoreSet(store, t, data) == [k \in DOMAIN store \cup {t} |-> IF k = t THEN data ELSE store[k]]
Merge(r, u) == [f \in DOMAIN r \cup DOMAIN u |-> IF f \in DOMAIN u THEN u[f] ELSE r[f]]
StoreUpdate(store, t, partial) == [store EXCEPT ![t] = Merge(@, partial)]
StoreDelete(store, t) == [k \in DOMAIN store \ {t} |-> store[k]]
EmptyStore == [k \in {} |-> Absent]

\* Request history (controllers/history): entries keyed by (topic, id)
HistoryExists(h, t, id) == \E i \in DOMAIN h : h[i].topic = t /\ h[i].id = id
HistorySet(h, t, id) == Append(h, [topic |-> t, id |-> id, response |-> FALSE])
HistoryUpdate(h, t, id) ==
  [i \in DOMAIN h |-> IF h[i].topic = t /\ h[i].id = id
                      THEN [h[i] EXCEPT !.response = TRUE] ELSE h[i]]
HistoryDelete(h, t) == SelectSeq(h, LAMBDA e : e.topic # t)

\* EventEmitter.emit, counted per <<kind, topic, id>>
Emit(ev, k) == IF k \in DOMAIN ev THEN [ev EXCEPT ![k] = @ + 1]
               ELSE [j \in DOMAIN ev \cup {k} |-> IF j = k THEN 1 ELSE ev[j]]
Count(ev, k) == IF k \in DOMAIN ev THEN ev[k] ELSE 0
NoEvents == [k \in {} |-> 0]

\* isSessionResponded / isSessionFailed
isSessionResponded(p) == p.status = "responded"
isSessionFailed(outcome) == "reason" \in DOMAIN outcome

----------------------------------------------------------------------------
\* JSON-RPC envelopes (formatJsonRpcRequest / formatJsonRpcResult / formatJsonRpcError)
formatJsonRpcRequest(topic, from, id, method, params) ==
  [topic |-> topic, from |-> from, id |-> id, method |-> method,
   params |-> params, error |-> Absent]
EmptyParams == [empty |-> TRUE]            \* params: {}  (a response carries none)
formatJsonRpcResult(topic, from, id) ==
  [topic |-> topic, from |-> from, id |-> id, method |-> Absent,
   params |-> EmptyParams, error |-> Absent]
formatJsonRpcError(topic, from, id, error) ==
  [topic |-> topic, from |-> from, id |-> id, method |-> Absent,
   params |-> EmptyParams, error |-> error]
isJsonRpcRequest(m) == m.method # Absent
\* payloadId(): ids are unique; the initiator's are odd, the responder's even
payloadId(x) == 2 * nextId[x] - (IF x = "A" THEN 1 ELSE 0)
UsedId(x) == [nextId EXCEPT ![x] = @ + 1]
isJsonRpcError(m) == m.method = Absent /\ m.error # Absent

\* The relay delivers a published message to the other peer, once or (keep,
\* within MaxDups) again later.
CanDeliver(m, keep) == m \in net /\ (keep => dups < MaxDups)
Rest(m, keep) == IF keep THEN net ELSE net \ {m}
Redelivered(keep) == IF keep THEN dups + 1 ELSE dups

\* relayer.publish(topic, payload): ok = FALSE is a transport failure
Publish(n, msg, ok) == IF ok THEN n \cup {msg} ELSE n

SESSION_DEFAULT_TTL == 1

\* Permissions a proposal may ask for (permissions.notifications is optional)
NoNotifications == [defined |-> FALSE, types |-> <<>>]
Notifications(types) == [defined |-> TRUE, types |-> types]
ProposalPerms ==
  { [chains |-> <<"c1">>, methods |-> <<"m1">>, notifications |-> Notifications(<<"n1">>)] }
RespondAccounts == {<<"a1">>}

NoCall == [op |-> "none", peer |-> Absent, result |-> Absent, approved |-> FALSE]
Call(op, x, result, approved) ==
  [op |-> op, peer |-> x, result |-> result, approved |-> approved]

\* settled.set succeeded: the record a settle() call stores
Settled(topic, self, peer, permissions, expiry, state) ==
  [topic |-> topic, relay |-> Relay, self |-> self, peer |-> peer,
   permissions |-> permissions, expiry |-> expiry, state |-> state]

\* Session.settle: the derived topic
settleTopicOfSelf(self, peer) == generateSharedKey(self, [publicKey |-> self.publicKey])
settleTopic(self, peer) == generateSharedKey(self, [publicKey |-> peer.publicKey])

\* controller of the session, as respond computes it
respondController(proposal, self) ==
  IF proposal.proposer.controller THEN [publicKey |-> proposal.proposer.publicKey]
  ELSE [publicKey |-> self.publicKey]

\* controller of the session, as onResponse computes it
onResponseControllerResponder(pend, responder) == [publicKey |-> responder.publicKey]
onResponseController(pend, responder) ==
  IF pend.proposal.proposer.controller THEN [publicKey |-> pend.proposal.proposer.publicKey]
  ELSE [publicKey |-> responder.publicKey]

\* peer argument onResponse passes to settle
onResponsePeer(pend, outcome) == outcome.responder

\* peer argument respond passes to settle
respondPeer(proposal, self) == [publicKey |-> proposal.proposer.publicKey]

----------------------------------------------------------------------------
\* Effects of store events on the Session's own listeners

\* the settled "deleted" listener: history.delete(session.topic)
settledDeletedKeepHistory(h, t) == h
settledDeletedHistory(h, t) == HistoryDelete(h, t)

\* settled.delete, then the settled "deleted" listener: emit deleted, purge
\* history, publish wc_sessionDelete (settled.delete of an unknown topic is a
\* no-op); n is the relay content before the publish
SettledDelete(x, t, reason, n) ==
  IF Has(settled[x], t)
  THEN /\ settled' = [settled EXCEPT ![x] = StoreDelete(@, t)]
       /\ events' = [events EXCEPT ![x] = Emit(@, <<"deleted", t, 0>>)]
       /\ history' = [history EXCEPT ![x] = settledDeletedHistory(@, t)]
       /\ nextId' = UsedId(x)
       /\ net' = Publish(n, formatJsonRpcRequest(t, x, payloadId(x), "wc_sessionDelete",
                                                 [reason |-> reason]), TRUE)
  ELSE /\ net' = n
       /\ UNCHANGED <<settled, events, history, nextId>>

\* create()'s listener on pending "updated", for a responded record `pend`.
\* Yields <<pending store, create>> after the listener ran.
createListener(store, sett, cr, pend) ==
  IF cr.stage # "listening" \/ ~isSessionResponded(pend) THEN <<store, cr>>
  ELSE IF isSessionFailed(pend.outcome)
       THEN <<StoreDelete(store, pend.topic),
              [cr EXCEPT !.timer = FALSE,
                         !.result = IF @ = "pending" THEN pend.outcome.reason ELSE @]>>
       ELSE IF Has(sett, pend.outcome.topic)
            THEN <<StoreDelete(store, pend.topic),
                   [cr EXCEPT !.timer = FALSE,
                              !.result = IF @ = "pending" THEN "resolved" ELSE @,
                              !.session = IF cr.result = "pending"
                                          THEN pend.outcome.topic ELSE @]>>
            ELSE <<store,
                   [cr EXCEPT !.timer = FALSE,
                              !.result = IF @ = "pending" THEN "NO_MATCHING_TOPIC" ELSE @]>>

----------------------------------------------------------------------------
\* Handshake, initiator side

\* create -> propose: write the proposed pending record; its "created" event
\* sends wc_sessionPropose over the pairing channel
Propose(controller, perms, ok) ==
  /\ create.stage = "idle"
  /\ nextKey <= MaxKeys
  /\ LET self == [publicKey |-> PublicKey(nextKey)]
         proposal == [topic |-> ProposalTopic, relay |-> Relay,
                      proposer |-> [publicKey |-> self.publicKey, controller |-> controller],
                      permissions |-> perms, ttl |-> SESSION_DEFAULT_TTL]
         pend == [status |-> "proposed", topic |-> ProposalTopic, relay |-> Relay,
                  self |-> self, proposal |-> proposal]
     IN /\ nextKey' = nextKey + 1
        /\ IF ok
           THEN /\ pending' = [pending EXCEPT ![Initiator] = StoreSet(@, pend.topic, pend)]
                /\ events' = [events EXCEPT ![Initiator] = Emit(@, <<"proposed", pend.topic, 0>>)]
                /\ net' = net \cup {formatJsonRpcRequest(0, Initiator, payloadId(Initiator),
                                                         "wc_sessionPropose", proposal)}
                /\ nextId' = UsedId(Initiator)
                /\ create' = [create EXCEPT !.stage = "proposed", !.timer = TRUE]
           ELSE /\ create' = [create EXCEPT !.stage = "done", !.result = "TRANSPORT"]
                /\ UNCHANGED <<pending, events, net, nextId>>
        /\ last' = Call("create", Initiator, Absent, FALSE)
  /\ UNCHANGED <<settled, history, dups, tasks, requests>>
  /\ UNCHANGED server

\* what propose refuses before it touches anything: parameters that fail
\* validateSessionProposeParams, or a signal method other than pairing
ProposeErrors == {"MISSING_OR_INVALID", "SIGNAL_UNSUPPORTED"}

\* create -> propose with parameters propose refuses: propose throws before the
\* key pair is generated; create clears its timer and rejects with the error
ProposeInvalidWrites(error) ==
  /\ create.stage = "idle"
  /\ create' = [create EXCEPT !.stage = "done", !.result = error, !.timer = FALSE]
  /\ pending' = [pending EXCEPT ![Initiator] =
        StoreSet(@, ProposalTopic, [status |-> "proposed", topic |-> ProposalTopic])]
  /\ last' = Call("create", Initiator, error, FALSE)
  /\ UNCHANGED <<settled, history, events, net, dups, tasks, nextKey, nextId, requests>>
  /\ UNCHANGED server
ProposeInvalid(error) ==
  /\ create.stage = "idle"
  /\ create' = [create EXCEPT !.stage = "done", !.result = error, !.timer = FALSE]
  /\ last' = Call("create", Initiator, error, FALSE)
  /\ UNCHANGED <<pending, settled, history, events, net, dups, tasks, nextKey, nextId,
                 requests>>
  /\ UNCHANGED server

\* create registers its listener on pending "updated" after propose returned
CreateListen ==
  /\ create.stage = "proposed"
  /\ create' = [create EXCEPT !.stage = "listening"]
  /\ UNCHANGED <<pending, settled, history, events, net, dups, tasks, last, nextKey, nextId,
                 requests>>
  /\ UNCHANGED server

\* create's timer fires: reject with SETTLE_TIMEOUT; nothing is deleted
CreateTimeoutDeletes ==
  /\ create.timer
  /\ create' = [create EXCEPT !.timer = FALSE,
                              !.result = IF @ = "pending" THEN "SETTLE_TIMEOUT" ELSE @]
  /\ pending' = [pending EXCEPT ![Initiator] = StoreDelete(@, ProposalTopic)]
  /\ UNCHANGED <<settled, history, events, net, dups, tasks, last, nextKey, nextId, requests>>
  /\ UNCHANGED server
CreateTimeout ==
  /\ create.timer
  /\ create' = [create EXCEPT !.timer = FALSE,
                              !.result = IF @ = "pending" THEN "SETTLE_TIMEOUT" ELSE @]
  /\ UNCHANGED <<pending, settled, history, events, net, dups, tasks, last, nextKey, nextId,
                 requests>>
  /\ UNCHANGED server

----------------------------------------------------------------------------
\* Handshake, responder side

\* Transport outcomes of one respond call: settled.set, the first and the
\* second pending.set (a publish made by a listener is fire-and-forget: its
\* failure is a message that never arrives)
RespondFaults ==
  { [settle |-> TRUE,  pending1 |-> TRUE,  pending2 |-> TRUE,  publish |-> TRUE],
    [settle |-> FALSE, pending1 |-> TRUE,  pending2 |-> TRUE,  publish |-> TRUE],
    [settle |-> TRUE,  pending1 |-> FALSE, pending2 |-> TRUE,  publish |-> TRUE],
    [settle |-> TRUE,  pending1 |-> FALSE, pending2 |-> FALSE, publish |-> TRUE] }

RejectReasons == {Absent, "USER_REJECTED"}

\* the pending record respond writes when approved and settled
respondApproved(proposal, self, session) ==
  [status |-> "responded", topic |-> proposal.topic, relay |-> proposal.relay,
   self |-> self, proposal |-> proposal,
   outcome |-> [topic |-> session.topic, relay |-> session.relay, state |-> session.state,
                responder |-> [publicKey |-> self.publicKey], expiry |-> session.expiry]]

\* the pending record respond writes from its catch block
respondFailedAnnounces(proposal, self) ==
  [status |-> "responded", topic |-> proposal.topic, relay |-> proposal.relay,
   self |-> self, proposal |-> proposal,
   outcome |-> [topic |-> settleTopic(self, respondPeer(proposal, self)), relay |-> proposal.relay,
                state |-> [accounts |-> <<>>],
                responder |-> [publicKey |-> self.publicKey], expiry |-> proposal.ttl]]
respondFailed(proposal, self) ==
  [status |-> "responded", topic |-> proposal.topic, relay |-> proposal.relay,
   self |-> self, proposal |-> proposal, outcome |-> [reason |-> "GENERIC"]]

\* the pending record respond writes when not approved
respondRejectedMissingReason(proposal, self, reason) ==
  [status |-> "responded", topic |-> proposal.topic, relay |-> proposal.relay,
   self |-> self, proposal |-> proposal,
   outcome |-> [reason |-> reason]]
respondRejected(proposal, self, reason) ==
  [status |-> "responded", topic |-> proposal.topic, relay |-> proposal.relay,
   self |-> self, proposal |-> proposal,
   outcome |-> [reason |-> IF reason # Absent THEN reason ELSE "NOT_APPROVED"]]

\* the settled record respond asks settle to store
respondSession(proposal, self, accounts) ==
  Settled(settleTopic(self, respondPeer(proposal, self)), self, proposal.proposer,
          [chains |-> proposal.permissions.chains,
           methods |-> proposal.permissions.methods,
           notifications |-> proposal.permissions.notifications,
           controller |-> respondController(proposal, self)],
          proposal.ttl, [accounts |-> accounts])

\* pending.set by the responder, then the "created" listener: emit responded and
\* publish the approve / reject request on the pending topic
RespondWriteSilent(pend, ok, okPublish) ==
  IF ok /\ ~Has(pending[Responder], pend.topic)
  THEN /\ pending' = [pending EXCEPT ![Responder] = StoreSet(@, pend.topic, pend)]
       /\ net' = net
       /\ nextId' = UsedId(Responder)
  ELSE UNCHANGED <<pending, net, nextId>>
RespondWrite(pend, ok, okPublish) ==
  IF ok /\ ~Has(pending[Responder], pend.topic)
  THEN /\ pending' = [pending EXCEPT ![Responder] = StoreSet(@, pend.topic, pend)]
       /\ net' = Publish(net, formatJsonRpcRequest(pend.topic, Responder, payloadId(Responder),
                           IF isSessionFailed(pend.outcome) THEN "wc_sessionReject"
                           ELSE "wc_sessionApprove", pend.outcome), okPublish)
       /\ nextId' = UsedId(Responder)
  ELSE UNCHANGED <<pending, net, nextId>>

Respond(m, approved, reason, accounts, f) ==
  /\ m \in net
  /\ m.method = "wc_sessionPropose"
  /\ nextKey <= MaxKeys
  /\ nextKey' = nextKey + 1
  /\ LET proposal == m.params
         self == [publicKey |-> PublicKey(nextKey)]
         session == respondSession(proposal, self, accounts)
         free == ~Has(pending[Responder], proposal.topic)
         settleOk == f.settle /\ ~Has(settled[Responder], session.topic)
     IN IF approved
        THEN /\ IF settleOk
                THEN /\ settled' = [settled EXCEPT ![Responder] = StoreSet(@, session.topic, session)]
                     /\ LET first == f.pending1 /\ free
                            wrote == first \/ (f.pending2 /\ free)
                        IN /\ RespondWrite(IF first THEN respondApproved(proposal, self, session)
                                           ELSE respondFailed(proposal, self),
                                           wrote, f.publish)
                           /\ events' = [events EXCEPT ![Responder] =
                                 IF wrote
                                 THEN Emit(Emit(@, <<"settled", session.topic, 0>>),
                                           <<"responded", proposal.topic, 0>>)
                                 ELSE Emit(@, <<"settled", session.topic, 0>>)]
                           /\ last' = Call("respond", Responder,
                                           IF wrote THEN "returned" ELSE "threw", TRUE)
                ELSE /\ UNCHANGED settled
                     /\ RespondWrite(respondFailed(proposal, self), f.pending2, f.publish)
                     /\ events' = [events EXCEPT ![Responder] =
                           IF f.pending2 /\ free
                           THEN Emit(@, <<"responded", proposal.topic, 0>>) ELSE @]
                     /\ last' = Call("respond", Responder,
                                     IF f.pending2 /\ free THEN "returned" ELSE "threw", TRUE)
        ELSE /\ UNCHANGED settled
             /\ RespondWrite(respondRejected(proposal, self, reason), f.pending1, f.publish)
             /\ events' = [events EXCEPT ![Responder] =
                   IF f.pending1 /\ free
                   THEN Emit(@, <<"responded", proposal.topic, 0>>) ELSE @]
             /\ last' = Call("respond", Responder,
                             IF f.pending1 /\ free THEN "returned" ELSE "threw", FALSE)
  /\ UNCHANGED <<history, dups, tasks, create, requests>>
  /\ UNCHANGED server

\* respond(params) with parameters that fail validateSessionRespondParams, for
\* a proposal that was received: respond throws before the key pair is generated
RespondInvalid(m) ==
  /\ m \in net
  /\ m.method = "wc_sessionPropose"
  /\ last' = Call("respond", Responder, "MISSING_OR_INVALID", FALSE)
  /\ UNCHANGED <<pending, settled, history, events, net, dups, tasks, create, nextKey, nextId,
                 requests>>
  /\ UNCHANGED server

\* onAcknowledge: an acknowledgement arrives on the pending topic
OnAcknowledgeReopens(m, keep) ==
  /\ CanDeliver(m, keep)
  /\ ~isJsonRpcRequest(m)
  /\ Has(pending[Other(m.from)], m.topic)
  /\ dups' = Redelivered(keep)
  /\ net' = Rest(m, keep)
  /\ pending' = [pending EXCEPT ![Other(m.from)] =
                   StoreUpdate(@, m.topic, [status |-> "proposed"])]
  /\ UNCHANGED <<settled, events, history, nextId, tasks, create, last, nextKey, requests>>
  /\ UNCHANGED server
OnAcknowledgeNoRollback(m, keep) ==
  /\ CanDeliver(m, keep)
  /\ ~isJsonRpcRequest(m)
  /\ Has(pending[Other(m.from)], m.topic)
  /\ dups' = Redelivered(keep)
  /\ net' = Rest(m, keep)
  /\ pending' = [pending EXCEPT ![Other(m.from)] =
                   IF isSessionResponded(@[m.topic]) THEN StoreDelete(@, m.topic) ELSE @]
  /\ UNCHANGED <<settled, events, history, nextId, tasks, create, last, nextKey, requests>>
  /\ UNCHANGED server
OnAcknowledge(m, keep) ==
  /\ CanDeliver(m, keep)
  /\ ~isJsonRpcRequest(m)
  /\ Has(pending[Other(m.from)], m.topic)
  /\ dups' = Redelivered(keep)
  /\ LET x == Other(m.from)
         pend == pending[x][m.topic]
     IN IF ~isSessionResponded(pend)
        THEN /\ net' = Rest(m, keep)
             /\ UNCHANGED <<pending, settled, events, history, nextId>>
        ELSE /\ pending' = [pending EXCEPT ![x] = StoreDelete(@, m.topic)]
             /\ IF isJsonRpcError(m) /\ ~isSessionFailed(pend.outcome)
                THEN SettledDelete(x, pend.outcome.topic, m.error, Rest(m, keep))
                ELSE /\ net' = Rest(m, keep)
                     /\ UNCHANGED <<settled, events, history, nextId>>
  /\ UNCHANGED <<tasks, create, last, nextKey, requests>>
  /\ UNCHANGED server

----------------------------------------------------------------------------
\* Handshake, initiator side: the outcome arrives

\* the settled record onResponse asks settle to store
onResponseSession(pend, outcome) ==
  Settled(settleTopic(pend.self, onResponsePeer(pend, outcome)), pend.self,
          onResponsePeer(pend, outcome),
          [chains |-> pend.proposal.permissions.chains,
           methods |-> pend.proposal.permissions.methods,
           notifications |-> pend.proposal.permissions.notifications,
           controller |-> onResponseController(pend, outcome.responder)],
          outcome.expiry, outcome.state)

\* pending.update(topic, {status: responded, outcome}) on peer x, then the
\* pending "updated" listeners: onPendingStatusEvent emits responded (and
\* publishes nothing), create's listener settles the create call
PendingRespond(x, topic, outcome) ==
  LET pend == Merge(pending[x][topic], [status |-> "responded", outcome |-> outcome])
      after == createListener(StoreUpdate(pending[x], topic,
                                          [status |-> "responded", outcome |-> outcome]),
                              settled[x], create, pend)
  IN /\ pending' = [pending EXCEPT ![x] = IF x = Initiator THEN after[1]
                                          ELSE StoreUpdate(@, topic,
                                                 [status |-> "responded", outcome |-> outcome])]
     /\ create' = IF x = Initiator THEN after[2] ELSE create
     /\ events' = [events EXCEPT ![x] = Emit(@, <<"responded", topic, 0>>)]

\* onResponse up to its first suspension: pending.get, then either the reject
\* branch (pending.update) or settle (generateSharedKey, settled.set)
OnResponse(m, keep, okSettle) ==
  /\ CanDeliver(m, keep)
  /\ m.method \in {"wc_sessionApprove", "wc_sessionReject"}
  /\ Has(pending[Other(m.from)], m.topic)
  /\ net' = Rest(m, keep)
  /\ dups' = Redelivered(keep)
  /\ LET x == Other(m.from)
         pend == pending[x][m.topic]
     IN IF isSessionFailed(m.params)
        THEN /\ PendingRespond(x, m.topic, [reason |-> m.params.reason])
             /\ UNCHANGED <<settled, tasks>>
        ELSE LET session == onResponseSession(pend, m.params)
                 ok == okSettle /\ ~Has(settled[x], session.topic)
             IN /\ settled' = IF ok THEN [settled EXCEPT ![x] = StoreSet(@, session.topic, session)]
                              ELSE settled
                /\ events' = IF ok THEN [events EXCEPT ![x] = Emit(@, <<"settled", session.topic, 0>>)]
                             ELSE events
                /\ tasks' = tasks \cup
                     {[kind |-> "onResponse", peer |-> x, topic |-> m.topic, id |-> m.id,
                       outcome |-> IF ok
                                   THEN [topic |-> session.topic, relay |-> session.relay,
                                         responder |-> session.peer, expiry |-> session.expiry,
                                         state |-> session.state]
                                   ELSE [reason |-> "GENERIC"]]}
                /\ UNCHANGED <<pending, create>>
  /\ UNCHANGED <<history, last, nextKey, nextId, requests>>
  /\ UNCHANGED server

\* onResponse after settle: pending.update with the outcome (or the failure),
\* then the acknowledgement is published on the pending topic
OnResponseResume(task) ==
  /\ task \in tasks
  /\ task.kind = "onResponse"
  /\ tasks' = tasks \ {task}
  /\ IF Has(pending[task.peer], task.topic)
     THEN /\ PendingRespond(task.peer, task.topic, task.outcome)
          /\ net' = Publish(net,
                       IF isSessionFailed(task.outcome)
                       THEN formatJsonRpcError(task.topic, task.peer, task.id, task.outcome.reason)
                       ELSE formatJsonRpcResult(task.topic, task.peer, task.id),
                       TRUE)
     ELSE UNCHANGED <<pending, create, events, net>>
  /\ UNCHANGED <<settled, history, dups, last, nextKey, nextId, requests>>
  /\ UNCHANGED server

----------------------------------------------------------------------------
\* delete(params): settled.delete(topic, reason)
DeleteReason == "USER_DISCONNECTED"         \* params.reason
Delete(x, t) ==
  /\ Has(settled[x], t)
  /\ SettledDelete(x, t, DeleteReason, net)
  /\ last' = Call("delete", x, "returned", FALSE)
  /\ UNCHANGED <<pending, dups, tasks, create, nextKey, requests>>
  /\ UNCHANGED server

\* the periodic sweep of the settled store: a record past its expiry is
\* deleted with reason EXPIRED (pending records are stored without an expiry)
Expire(x, t) ==
  /\ Has(settled[x], t)
  /\ SettledDelete(x, t, "EXPIRED", net)
  /\ UNCHANGED <<pending, dups, tasks, create, last, nextKey, requests>>
  /\ UNCHANGED server

\* onMessage, case wc_sessionDelete
OnDeleteIgnored(m, keep) ==
  /\ CanDeliver(m, keep)
  /\ m.method = "wc_sessionDelete"
  /\ Has(settled[Other(m.from)], m.topic)
  /\ dups' = Redelivered(keep)
  /\ net' = Rest(m, keep)
  /\ UNCHANGED <<pending, settled, history, events, tasks, create, last, nextKey, nextId,
                 requests>>
  /\ UNCHANGED server
OnDelete(m, keep) ==
  /\ CanDeliver(m, keep)
  /\ m.method = "wc_sessionDelete"
  /\ Has(settled[Other(m.from)], m.topic)
  /\ dups' = Redelivered(keep)
  /\ SettledDelete(Other(m.from), m.topic, m.params.reason, Rest(m, keep))
  /\ UNCHANGED <<pending, tasks, create, last, nextKey, requests>>
  /\ UNCHANGED server

----------------------------------------------------------------------------
\* The handshake: one proposal by the initiator, answered by the responder
NoCreate == [stage |-> "idle", result |-> "pending", timer |-> FALSE, session |-> 0]

\* the relay server with no subscription, and no sscan call made
ServerIdle ==
  /\ subscriptions = <<>>
  /\ channels = {}
  /\ scan = [stage |-> "idle", pages |-> <<>>, cursor |-> 0, messages |-> <<>>,
             promise |-> "pending", value |-> <<>>, calls |-> 0]

Init ==
  /\ ServerIdle
  /\ pending = [x \in Peers |-> EmptyStore]
  /\ settled = [x \in Peers |-> EmptyStore]
  /\ history = [x \in Peers |-> <<>>]
  /\ events = [x \in Peers |-> NoEvents]
  /\ net = {}
  /\ dups = 0
  /\ tasks = {}
  /\ create = NoCreate
  /\ last = NoCall
  /\ nextKey = 1
  /\ nextId = [x \in Peers |-> 1]
  /\ requests = [x \in Peers |-> EmptyStore]

Next ==
  \/ \E controller \in BOOLEAN, perms \in ProposalPerms, ok \in BOOLEAN :
       Propose(controller, perms, ok)
  \/ \E error \in ProposeErrors : ProposeInvalid(error)
  \/ \E m \in net : RespondInvalid(m)
  \/ CreateListen
  \/ CreateTimeout
  \/ \E m \in net, approved \in BOOLEAN, reason \in RejectReasons,
        accounts \in RespondAccounts, f \in RespondFaults :
       Respond(m, approved, reason, accounts, f)
  \/ \E m \in net, keep \in BOOLEAN, okSettle \in BOOLEAN : OnResponse(m, keep, okSettle)
  \/ \E task \in tasks : OnResponseResume(task)
  \/ \E m \in net, keep \in BOOLEAN : OnAcknowledge(m, keep)
  \/ \E x \in Peers : \E t \in DOMAIN settled[x] : Delete(x, t)
  \/ \E m \in net, keep \in BOOLEAN : OnDelete(m, keep)

Spec == Init /\ [][Next]_vars

\* The handshake alone: no peer calls delete, so a settled record disappears
\* only through the responder's rollback and the delete message that follows it
HandshakeNext ==
  \/ \E controller \in BOOLEAN, perms \in ProposalPerms, ok \in BOOLEAN :
       Propose(controller, perms, ok)
  \/ CreateListen
  \/ CreateTimeout
  \/ \E m \in net, approved \in BOOLEAN, reason \in RejectReasons,
        accounts \in RespondAccounts, f \in RespondFaults :
       Respond(m, approved, reason, accounts, f)
  \/ \E m \in net, keep \in BOOLEAN, okSettle \in BOOLEAN : OnResponse(m, keep, okSettle)
  \/ \E task \in tasks : OnResponseResume(task)
  \/ \E m \in net, keep \in BOOLEAN : OnAcknowledge(m, keep)
  \/ \E m \in net, keep \in BOOLEAN : OnDelete(m, keep)

SpecHandshake == Init /\ [][HandshakeNext]_vars

----------------------------------------------------------------------------
\* Settled session: update, upgrade, send, notify and the inbound dispatch

None == [defined |-> FALSE, value |-> <<>>]          \* an undefined optional field
Some(v) == [defined |-> TRUE, value |-> v]
OrEmpty(o) == IF o.defined THEN o.value ELSE <<>>    \* o || []

\* ids generated since the session settled (the handshake used one per peer)
IdsUsed == nextId["A"] + nextId["B"] - 4

\* handleUpgrade: participant.publicKey !== session.permissions.controller.publicKey
handleUpgradeSkipCheck(session, participant) == TRUE
handleUpgradeAuthorized(session, participant) ==
  participant.publicKey = session.permissions.controller.publicKey

\* handleUpgrade: the merged permissions (array concatenation)
handleUpgradeReplace(session, params) ==
  [chains |-> OrEmpty(params.chains),
   methods |-> OrEmpty(params.methods),
   notifications |-> Notifications(OrEmpty(params.notifications)),
   controller |-> session.permissions.controller]
handleUpgradePermissions(session, params) ==
  [chains |-> session.permissions.chains \o OrEmpty(params.chains),
   methods |-> session.permissions.methods \o OrEmpty(params.methods),
   notifications |-> Notifications(session.permissions.notifications.types
                                   \o OrEmpty(params.notifications)),
   controller |-> session.permissions.controller]

\* handleUpgrade(topic, params, participant): the error thrown (or Absent) and
\* the session record after it; spreading an undefined
\* session.permissions.notifications?.types throws a TypeError
handleUpgrade(session, params, participant) ==
  IF ~handleUpgradeAuthorized(session, participant)
  THEN [error |-> "UNAUTHORIZED_UPGRADE_REQUEST", session |-> session]
  ELSE IF ~session.permissions.notifications.defined
       THEN [error |-> "TypeError", session |-> session]
       ELSE [error |-> Absent,
             session |-> [session EXCEPT !.permissions = handleUpgradePermissions(session, params)]]

\* the upgrade handleUpgrade returns, sent as the params of wc_sessionUpgrade
upgradeOf(session) ==
  [chains |-> Some(session.permissions.chains),
   methods |-> Some(session.permissions.methods),
   notifications |-> Some(session.permissions.notifications.types)]

\* handleUpdate: participant.publicKey !== session.permissions.controller.publicKey
handleUpdateSkipCheck(session, participant) == TRUE
handleUpdateAuthorized(session, participant) ==
  participant.publicKey = session.permissions.controller.publicKey

\* handleUpdate: state.accounts = params.state.accounts || state.accounts
handleUpdateAppend(session, params) ==
  [accounts |-> session.state.accounts \o OrEmpty(params.accounts)]
handleUpdateState(session, params) ==
  [accounts |-> IF params.accounts.defined THEN params.accounts.value
                ELSE session.state.accounts]

\* handleUpdate(topic, params, participant)
handleUpdate(session, params, participant) ==
  IF params.hasState
  THEN IF ~handleUpdateAuthorized(session, participant)
       THEN [error |-> "UNAUTHORIZED_UPDATE_REQUEST", session |-> session]
       ELSE [error |-> Absent,
             session |-> [session EXCEPT !.state = handleUpdateState(session, params)]]
  ELSE [error |-> "INVALID_UPDATE_REQUEST", session |-> session]

\* the update handleUpdate returns, sent as the params of wc_sessionUpdate
updateOf(session) == [hasState |-> TRUE, accounts |-> Some(session.state.accounts)]

UpgradeParams ==
  { [chains |-> Some(<<"c2">>), methods |-> None, notifications |-> None],
    [chains |-> None, methods |-> Some(<<"m2">>), notifications |-> Some(<<"n2">>)] }

UpdateParams ==
  { [hasState |-> TRUE, accounts |-> Some(<<"a2">>)],
    [hasState |-> TRUE, accounts |-> Some(<<>>)],
    [hasState |-> TRUE, accounts |-> None],
    [hasState |-> FALSE, accounts |-> None] }

\* upgrade(params)
Upgrade(x, t, params, ok) ==
  /\ Has(settled[x], t)
  /\ IdsUsed < MaxIds
  /\ LET session == settled[x][t]
         r == handleUpgrade(session, params, [publicKey |-> session.self.publicKey])
     IN IF r.error # Absent
        THEN /\ last' = Call("upgrade", x, r.error, FALSE)
             /\ UNCHANGED <<settled, events, net, nextId>>
        ELSE /\ settled' = [settled EXCEPT ![x] = StoreUpdate(@, t, r.session)]
             /\ events' = [events EXCEPT ![x] = Emit(@, <<"updated", t, 0>>)]
             /\ nextId' = UsedId(x)
             /\ net' = Publish(net, formatJsonRpcRequest(t, x, payloadId(x), "wc_sessionUpgrade",
                                                         upgradeOf(r.session)), ok)
             /\ last' = Call("upgrade", x, IF ok THEN "returned" ELSE "TRANSPORT", FALSE)
  /\ UNCHANGED <<pending, history, dups, tasks, create, nextKey, requests>>
  /\ UNCHANGED server

\* update(params)
Update(x, t, params, ok) ==
  /\ Has(settled[x], t)
  /\ IdsUsed < MaxIds
  /\ LET session == settled[x][t]
         r == handleUpdate(session, params, [publicKey |-> session.self.publicKey])
     IN IF r.error # Absent
        THEN /\ last' = Call("update", x, r.error, FALSE)
             /\ UNCHANGED <<settled, events, net, nextId>>
        ELSE /\ settled' = [settled EXCEPT ![x] = StoreUpdate(@, t, r.session)]
             /\ events' = [events EXCEPT ![x] = Emit(@, <<"updated", t, 0>>)]
             /\ nextId' = UsedId(x)
             /\ net' = Publish(net, formatJsonRpcRequest(t, x, payloadId(x), "wc_sessionUpdate",
                                                         updateOf(r.session)), ok)
             /\ last' = Call("update", x, IF ok THEN "returned" ELSE "TRANSPORT", FALSE)
  /\ UNCHANGED <<pending, history, dups, tasks, create, nextKey, requests>>
  /\ UNCHANGED server

\* send: the permission checks of a request that is not a built-in method
sendErrorNoChainCheck(session, method, chainId) ==
  IF ~Includes(session.permissions.methods, method) THEN "UNAUTHORIZED_JSON_RPC_METHOD"
  ELSE Absent
sendError(session, method, chainId) ==
  IF ~Includes(session.permissions.methods, method) THEN "UNAUTHORIZED_JSON_RPC_METHOD"
  ELSE IF chainId # Absent /\ ~Includes(session.permissions.chains, chainId)
       THEN "UNAUTHORIZED_TARGET_CHAIN"
       ELSE Absent

\* send(topic, request, chainId): the error thrown before anything is
\* published (Absent: none); built-in session methods bypass the checks
sendRequestError(x, t, id, method, chainId) ==
  IF method \in SESSION_JSONRPC THEN Absent
  ELSE IF sendError(settled[x][t], method, chainId) # Absent
       THEN sendError(settled[x][t], method, chainId)
       ELSE IF HistoryExists(history[x], t, id) THEN "DUPLICATE_REQUEST"
            ELSE Absent

\* the params the application passes with a request of each method
ParamsOf(method) == [of |-> method]

\* send(topic, request, chainId): the payload published (other methods are
\* wrapped in a wc_sessionPayload envelope)
sendRequestPayload(x, t, id, method, chainId) ==
  IF method \in SESSION_JSONRPC
  THEN formatJsonRpcRequest(t, x, id, method, EmptyParams)
  ELSE formatJsonRpcRequest(t, x, id, "wc_sessionPayload",
                            [chainId |-> chainId,
                             request |-> [method |-> method, params |-> ParamsOf(method)]])

\* send(topic, request, chainId): how the call ends
sendRequestResult(x, t, id, method, chainId, ok) ==
  IF sendRequestError(x, t, id, method, chainId) # Absent
  THEN sendRequestError(x, t, id, method, chainId)
  ELSE IF ok THEN "returned" ELSE "TRANSPORT"

\* send(topic, request, chainId): history.set, then relayer.publish
SendRequest(x, t, id, method, chainId, ok) ==
  IF sendRequestError(x, t, id, method, chainId) # Absent
  THEN UNCHANGED <<history, net>>
  ELSE /\ history' = IF method \in SESSION_JSONRPC THEN history
                     ELSE [history EXCEPT ![x] = HistorySet(@, t, id)]
       /\ net' = Publish(net, sendRequestPayload(x, t, id, method, chainId), ok)

\* send(topic, payload, chainId) of a request with a fresh id
Send(x, t, method, chainId, ok) ==
  /\ Has(settled[x], t)
  /\ IdsUsed < MaxIds
  /\ nextId' = UsedId(x)
  /\ SendRequest(x, t, payloadId(x), method, chainId, ok)
  /\ last' = Call("send", x, sendRequestResult(x, t, payloadId(x), method, chainId, ok), FALSE)
  /\ UNCHANGED <<pending, settled, events, dups, tasks, create, nextKey, requests>>
  /\ UNCHANGED server

\* request(params): a fresh request, a timer, a listener on `response`, then
\* send; a failing send clears the timer and rejects with send's error
Request(x, t, method, chainId, ok) ==
  /\ Has(settled[x], t)
  /\ IdsUsed < MaxIds
  /\ nextId' = UsedId(x)
  /\ SendRequest(x, t, payloadId(x), method, chainId, ok)
  /\ LET r == sendRequestResult(x, t, payloadId(x), method, chainId, ok)
     IN /\ requests' = [requests EXCEPT ![x] =
               StoreSet(@, payloadId(x), [topic |-> t,
                                          result |-> IF r = "returned" THEN "pending" ELSE r,
                                          timer |-> r = "returned"])]
        /\ last' = Call("request", x, r, FALSE)
  /\ UNCHANGED <<pending, settled, events, dups, tasks, create, nextKey>>
  /\ UNCHANGED server

\* ping(topic, timeout): request of the built-in wc_sessionPing
Ping(x, t, ok) == Request(x, t, "wc_sessionPing", Absent, ok)

\* request's timer fires: reject with JSONRPC_REQUEST_TIMEOUT
RequestTimeout(x, id) ==
  /\ Has(requests[x], id)
  /\ requests[x][id].timer
  /\ requests' = [requests EXCEPT ![x][id] =
                    [@ EXCEPT !.timer = FALSE,
                              !.result = IF @ = "pending" THEN "JSONRPC_REQUEST_TIMEOUT" ELSE @]]
  /\ UNCHANGED <<pending, settled, history, events, net, dups, tasks, create, last, nextKey,
                 nextId>>
  /\ UNCHANGED server

\* request's listener on `response`: the event it reacts to
requestMatchesTopic(req, id, topic, responseId) == req.topic = topic
requestMatches(req, id, topic, responseId) == req.topic = topic /\ id = responseId

\* request's listeners of one peer after the `response` event of message m
requestListenersKeepTimer(reqs, m) ==
  [id \in DOMAIN reqs |->
     IF requestMatches(reqs[id], id, m.topic, m.id)
     THEN [reqs[id] EXCEPT !.result = IF @ # "pending" THEN @
                                      ELSE IF isJsonRpcError(m) THEN m.error ELSE "resolved"]
     ELSE reqs[id]]
requestListeners(reqs, m) ==
  [id \in DOMAIN reqs |->
     IF requestMatches(reqs[id], id, m.topic, m.id)
     THEN [reqs[id] EXCEPT !.timer = FALSE,
                           !.result = IF @ # "pending" THEN @
                                      ELSE IF isJsonRpcError(m) THEN m.error ELSE "resolved"]
     ELSE reqs[id]]

\* send(topic, response) by the application that was handed a request: the
\* response is attached to the recorded request, then published
ResponseErrors == {Absent, "REQUEST_REJECTED"}
SendResponse(x, t, id, error, ok) ==
  /\ Has(settled[x], t)
  /\ Count(events[x], <<"request", t, id>>) > 0
  /\ \E i \in DOMAIN history[x] :
       history[x][i].topic = t /\ history[x][i].id = id /\ ~history[x][i].response
  /\ history' = [history EXCEPT ![x] = HistoryUpdate(@, t, id)]
  /\ net' = Publish(net, IF error = Absent THEN formatJsonRpcResult(t, x, id)
                         ELSE formatJsonRpcError(t, x, id, error), ok)
  /\ last' = Call("send", x, IF ok THEN "returned" ELSE "TRANSPORT", FALSE)
  /\ UNCHANGED <<pending, settled, events, dups, tasks, create, nextKey, nextId, requests>>
  /\ UNCHANGED server

\* notify: the permission check
notifyError(session, type) ==
  IF session.self.publicKey # session.permissions.controller.publicKey
  THEN IF ~session.permissions.notifications.defined THEN "TypeError"
       ELSE IF ~Includes(session.permissions.notifications.types, type)
            THEN "UNAUTHORIZED_NOTIFICATION_TYPE"
            ELSE Absent
  ELSE Absent

\* notify(params)
Notify(x, t, type, ok) ==
  /\ Has(settled[x], t)
  /\ IdsUsed < MaxIds
  /\ LET session == settled[x][t]
         error == notifyError(session, type)
     IN IF error # Absent
        THEN /\ last' = Call("notify", x, error, FALSE)
             /\ UNCHANGED <<net, nextId>>
        ELSE /\ nextId' = UsedId(x)
             /\ net' = Publish(net, formatJsonRpcRequest(t, x, payloadId(x),
                                      "wc_sessionNotification", [type |-> type]), ok)
             /\ last' = Call("notify", x, IF ok THEN "returned" ELSE "TRANSPORT", FALSE)
  /\ UNCHANGED <<pending, settled, history, events, dups, tasks, create, nextKey, requests>>
  /\ UNCHANGED server

\* shouldIgnorePayloadEvent
shouldIgnorePayloadEvent(x, topic, id) ==
  ~Has(settled[x], topic) \/ HistoryExists(history[x], topic, id)

\* onPayloadEvent, request branch: history.set(topic, payload, chainId)
onPayloadEventNoHistory(h, topic, id) == h
onPayloadEventHistory(h, topic, id) == HistorySet(h, topic, id)

\* onPayload: the inbound permission check of the inner method
onPayloadAuthorizedAny(session, method) == TRUE
onPayloadAuthorized(session, method) == Includes(session.permissions.methods, method)

\* onPayload: the request rebuilt from the wc_sessionPayload envelope
onPayloadRequestEnvelope(m) == [id |-> m.id, method |-> m.method, params |-> m.params]
onPayloadRequest(m) ==
  [id |-> m.id, method |-> m.params.request.method, params |-> m.params.request.params]

\* onMessage: settled.get(topic) throws for a topic with no settled record
onMessageSession(x, topic) == Has(settled[x], topic)

\* onMessage, case wc_sessionPayload: onPayload, then onPayloadEvent up to the
\* write of the history entry
OnPayload(m, keep) ==
  /\ CanDeliver(m, keep)
  /\ m.method = "wc_sessionPayload"
  /\ net' = Rest(m, keep)
  /\ dups' = Redelivered(keep)
  /\ LET x == Other(m.from) IN
     IF /\ onMessageSession(x, m.topic)
        /\ Has(settled[x], m.topic) =>
             onPayloadAuthorized(settled[x][m.topic], onPayloadRequest(m).method)
        /\ ~shouldIgnorePayloadEvent(x, m.topic, onPayloadRequest(m).id)
     THEN /\ history' = [history EXCEPT ![x] =
                           onPayloadEventHistory(@, m.topic, onPayloadRequest(m).id)]
          /\ tasks' = tasks \cup {[kind |-> "onPayloadEvent", peer |-> x, topic |-> m.topic,
                                   id |-> onPayloadRequest(m).id,
                                   outcome |-> [reason |-> Absent]]}
     ELSE UNCHANGED <<history, tasks>>
  /\ UNCHANGED <<pending, settled, events, create, last, nextKey, nextId, requests>>
  /\ UNCHANGED server

\* onPayloadEvent after history.set: the request event is emitted
OnPayloadEventResume(task) ==
  /\ task \in tasks
  /\ task.kind = "onPayloadEvent"
  /\ tasks' = tasks \ {task}
  /\ events' = [events EXCEPT ![task.peer] = Emit(@, <<"request", task.topic, task.id>>)]
  /\ UNCHANGED <<pending, settled, history, net, dups, create, last, nextKey, nextId, requests>>
  /\ UNCHANGED server

\* send(topic, response) from an inbound handler: history.update throws when
\* no request with that id is recorded, and then nothing is published
Reply(x, t, id, error, n) ==
  IF HistoryExists(history[x], t, id)
  THEN /\ history' = [history EXCEPT ![x] = HistoryUpdate(@, t, id)]
       /\ net' = n \cup {IF error = Absent THEN formatJsonRpcResult(t, x, id)
                         ELSE formatJsonRpcError(t, x, id, error)}
  ELSE /\ net' = n
       /\ UNCHANGED history

\* onMessage, case wc_sessionUpdate: onUpdate
OnUpdate(m, keep) ==
  /\ CanDeliver(m, keep)
  /\ m.method = "wc_sessionUpdate"
  /\ Has(settled[Other(m.from)], m.topic)
  /\ dups' = Redelivered(keep)
  /\ LET x == Other(m.from)
         session == settled[x][m.topic]
         r == handleUpdate(session, m.params, [publicKey |-> session.peer.publicKey])
     IN /\ IF r.error = Absent
           THEN /\ settled' = [settled EXCEPT ![x] = StoreUpdate(@, m.topic, r.session)]
                /\ events' = [events EXCEPT ![x] = Emit(@, <<"updated", m.topic, m.id>>)]
           ELSE UNCHANGED <<settled, events>>
        /\ Reply(x, m.topic, m.id, r.error, Rest(m, keep))
  /\ UNCHANGED <<pending, tasks, create, last, nextKey, nextId, requests>>
  /\ UNCHANGED server

\* onMessage, case wc_sessionUpgrade: onUpgrade
OnUpgrade(m, keep) ==
  /\ CanDeliver(m, keep)
  /\ m.method = "wc_sessionUpgrade"
  /\ Has(settled[Other(m.from)], m.topic)
  /\ dups' = Redelivered(keep)
  /\ LET x == Other(m.from)
         session == settled[x][m.topic]
         r == handleUpgrade(session, m.params, [publicKey |-> session.peer.publicKey])
     IN /\ IF r.error = Absent
           THEN /\ settled' = [settled EXCEPT ![x] = StoreUpdate(@, m.topic, r.session)]
                /\ events' = [events EXCEPT ![x] = Emit(@, <<"updated", m.topic, m.id>>)]
           ELSE UNCHANGED <<settled, events>>
        /\ Reply(x, m.topic, m.id, r.error, Rest(m, keep))
  /\ UNCHANGED <<pending, tasks, create, last, nextKey, nextId, requests>>
  /\ UNCHANGED server

\* onMessage, case wc_sessionNotification: onNotification
OnNotification(m, keep) ==
  /\ CanDeliver(m, keep)
  /\ m.method = "wc_sessionNotification"
  /\ Has(settled[Other(m.from)], m.topic)
  /\ net' = Rest(m, keep)
  /\ dups' = Redelivered(keep)
  /\ events' = [events EXCEPT ![Other(m.from)] = Emit(@, <<"notification", m.topic, m.id>>)]
  /\ UNCHANGED <<pending, settled, history, tasks, create, last, nextKey, nextId, requests>>
  /\ UNCHANGED server

\* onMessage, a response on a settled topic: onPayloadEvent attaches it to the
\* recorded request (history.update throws when there is none) and emits
\* `response`, which request's listeners hear
OnResponseEvent(m, keep) ==
  /\ CanDeliver(m, keep)
  /\ ~isJsonRpcRequest(m)
  /\ Has(settled[Other(m.from)], m.topic)
  /\ net' = Rest(m, keep)
  /\ dups' = Redelivered(keep)
  /\ LET x == Other(m.from) IN
     IF HistoryExists(history[x], m.topic, m.id)
     THEN /\ history' = [history EXCEPT ![x] = HistoryUpdate(@, m.topic, m.id)]
          /\ events' = [events EXCEPT ![x] = Emit(@, <<"response", m.topic, m.id>>)]
          /\ requests' = [requests EXCEPT ![x] = requestListeners(@, m)]
     ELSE UNCHANGED <<history, events, requests>>
  /\ UNCHANGED <<pending, settled, tasks, create, last, nextKey, nextId>>
  /\ UNCHANGED server

\* onMessage, case wc_sessionPing: send(topic, formatJsonRpcResult(id, false))
OnPing(m, keep) ==
  /\ CanDeliver(m, keep)
  /\ m.method = "wc_sessionPing"
  /\ Has(settled[Other(m.from)], m.topic)
  /\ dups' = Redelivered(keep)
  /\ Reply(Other(m.from), m.topic, m.id, Absent, Rest(m, keep))
  /\ UNCHANGED <<pending, settled, events, tasks, create, last, nextKey, nextId, requests>>
  /\ UNCHANGED server

\* a peer whose client speaks a method this client has no case for
UnknownMethod == "wc_sessionExtend"
UnknownRequest(x, t) ==
  /\ Has(settled[x], t)
  /\ IdsUsed < MaxIds
  /\ nextId' = UsedId(x)
  /\ net' = net \cup {formatJsonRpcRequest(t, x, payloadId(x), UnknownMethod, EmptyParams)}
  /\ UNCHANGED <<pending, settled, history, events, dups, tasks, create, last, nextKey,
                 requests>>
  /\ UNCHANGED server

\* the methods onMessage has a case for
onMessageCases == {"wc_sessionPayload", "wc_sessionUpdate", "wc_sessionUpgrade",
                   "wc_sessionNotification", "wc_sessionDelete", "wc_sessionPing"}

\* onMessage, default case: send(topic, formatJsonRpcError(id, UNKNOWN_JSONRPC_METHOD))
OnUnknown(m, keep) ==
  /\ CanDeliver(m, keep)
  /\ isJsonRpcRequest(m)
  /\ m.method \notin onMessageCases
  /\ Has(settled[Other(m.from)], m.topic)
  /\ dups' = Redelivered(keep)
  /\ Reply(Other(m.from), m.topic, m.id, "UNKNOWN_JSONRPC_METHOD", Rest(m, keep))
  /\ UNCHANGED <<pending, settled, events, tasks, create, last, nextKey, nextId, requests>>
  /\ UNCHANGED server

----------------------------------------------------------------------------
\* A settled session: the states the peers are in after the responder approved
\* (keys 1 and 2): the initiator's acknowledgement is still in flight (a result,
\* or an error when the initiator's own settle failed) or has been received
SessionPerms ==
  { [chains |-> <<"c1">>, methods |-> <<"m1">>, notifications |-> Notifications(<<"n1">>)],
    [chains |-> <<"c1">>, methods |-> <<"m1">>, notifications |-> NoNotifications] }

SessionProposal(controller, perms) ==
  [topic |-> ProposalTopic, relay |-> Relay,
   proposer |-> [publicKey |-> PublicKey(1), controller |-> controller],
   permissions |-> perms, ttl |-> SESSION_DEFAULT_TTL]

\* the acknowledgement onResponse publishes for the approve request (id 2)
SessionAcks == {"received", "result", "error"}
SessionAck(ack) ==
  IF ack = "result" THEN {formatJsonRpcResult(ProposalTopic, Initiator, 2)}
  ELSE IF ack = "error" THEN {formatJsonRpcError(ProposalTopic, Initiator, 2, "GENERIC")}
       ELSE {}

SessionInit ==
  \E controller \in BOOLEAN, perms \in SessionPerms, ack \in SessionAcks :
    LET proposal == SessionProposal(controller, perms)
        selfA == [publicKey |-> PublicKey(1)]
        selfB == [publicKey |-> PublicKey(2)]
        sessionB == respondSession(proposal, selfB, <<"a1">>)
        pendB == respondApproved(proposal, selfB, sessionB)
        pendA == [status |-> "proposed", topic |-> ProposalTopic, relay |-> Relay,
                  self |-> selfA, proposal |-> proposal]
        sessionA == onResponseSession(pendA, pendB.outcome)
    IN /\ settled = [x \in Peers |-> IF x = Initiator
                                     THEN IF ack = "error" THEN EmptyStore
                                          ELSE StoreSet(EmptyStore, sessionA.topic, sessionA)
                                     ELSE StoreSet(EmptyStore, sessionB.topic, sessionB)]
       /\ pending = [x \in Peers |-> IF x = Responder /\ ack # "received"
                                     THEN StoreSet(EmptyStore, pendB.topic, pendB)
                                     ELSE EmptyStore]
       /\ history = [x \in Peers |-> <<>>]
       /\ events = [x \in Peers |-> NoEvents]
       /\ net = SessionAck(ack)
       /\ dups = 0
       /\ tasks = {}
       /\ create = IF ack = "error"
                   THEN [stage |-> "listening", result |-> "GENERIC", timer |-> FALSE,
                         session |-> 0]
                   ELSE [stage |-> "listening", result |-> "resolved", timer |-> FALSE,
                         session |-> sessionA.topic]
       /\ last = NoCall
       /\ nextKey = 3
       /\ nextId = [x \in Peers |-> 2]
       /\ requests = [x \in Peers |-> EmptyStore]
       /\ ServerIdle

SessionNext ==
  \/ \E x \in Peers, params \in UpgradeParams, ok \in BOOLEAN :
       \E t \in DOMAIN settled[x] : Upgrade(x, t, params, ok)
  \/ \E x \in Peers, params \in UpdateParams, ok \in BOOLEAN :
       \E t \in DOMAIN settled[x] : Update(x, t, params, ok)
  \/ \E x \in Peers, method \in Methods, chainId \in Chains \cup {Absent}, ok \in BOOLEAN :
       \E t \in DOMAIN settled[x] : Send(x, t, method, chainId, ok)
  \/ \E x \in Peers, type \in Types, ok \in BOOLEAN :
       \E t \in DOMAIN settled[x] : Notify(x, t, type, ok)
  \/ \E x \in Peers : \E t \in DOMAIN settled[x] : Delete(x, t)
  \/ \E m \in net, keep \in BOOLEAN : OnPayload(m, keep)
  \/ \E task \in tasks : OnPayloadEventResume(task)
  \/ \E m \in net, keep \in BOOLEAN : OnUpdate(m, keep)
  \/ \E m \in net, keep \in BOOLEAN : OnUpgrade(m, keep)
  \/ \E m \in net, keep \in BOOLEAN : OnNotification(m, keep)
  \/ \E m \in net, keep \in BOOLEAN : OnDelete(m, keep)
  \/ \E x \in Peers : \E t \in DOMAIN settled[x] : Expire(x, t)
  \/ \E m \in net, keep \in BOOLEAN : OnAcknowledge(m, keep)
SpecSession == SessionInit /\ [][SessionNext]_vars

\* Requests and their responses on a settled session whose acknowledgement
\* has been received
RequestInit == SessionInit /\ net = {}

RequestNext ==
  \/ \E x \in Peers, method \in Methods, chainId \in Chains \cup {Absent}, ok \in BOOLEAN :
       \E t \in DOMAIN settled[x] : Request(x, t, method, chainId, ok)
  \/ \E x \in Peers, ok \in BOOLEAN : \E t \in DOMAIN settled[x] : Ping(x, t, ok)
  \/ \E x \in Peers : \E id \in DOMAIN requests[x] : RequestTimeout(x, id)
  \/ \E x \in Peers, error \in ResponseErrors, ok \in BOOLEAN :
       \E t \in DOMAIN settled[x], i \in DOMAIN history[x] :
         SendResponse(x, t, history[x][i].id, error, ok)
  \/ \E m \in net, keep \in BOOLEAN : OnResponseEvent(m, keep)
  \/ \E m \in net, keep \in BOOLEAN : OnPing(m, keep)
  \/ \E x \in Peers : \E t \in DOMAIN settled[x] : UnknownRequest(x, t)
  \/ \E m \in net, keep \in BOOLEAN : OnUnknown(m, keep)
  \/ \E m \in net, keep \in BOOLEAN : OnPayload(m, keep)
  \/ \E task \in tasks : OnPayloadEventResume(task)
  \/ \E x \in Peers : \E t \in DOMAIN settled[x] : Delete(x, t)
  \/ \E m \in net, keep \in BOOLEAN : OnDelete(m, keep)
  \/ \E x \in Peers : \E t \in DOMAIN settled[x] : Expire(x, t)

SpecRequest == RequestInit /\ [][RequestNext]_vars


\* Deleting a settled session that has carried requests; the relay delivers
\* every message published to a peer that still holds the session
DeleteNext ==
  \/ \E x \in Peers, method \in Methods, chainId \in Chains \cup {Absent}, ok \in BOOLEAN :
       \E t \in DOMAIN settled[x] : Send(x, t, method, chainId, ok)
  \/ \E m \in net, keep \in BOOLEAN : OnPayload(m, keep)
  \/ \E task \in tasks : OnPayloadEventResume(task)
  \/ \E x \in Peers : \E t \in DOMAIN settled[x] : Delete(x, t)
  \/ \E x \in Peers : \E t \in DOMAIN settled[x] : Expire(x, t)
  \/ \E m \in net, keep \in BOOLEAN : OnDelete(m, keep)

SpecDelete ==
  /\ RequestInit
  /\ [][DeleteNext]_vars
  /\ WF_vars(\E m \in net : OnDelete(m, FALSE))


\* Updates and upgrades of a settled session over a relay that loses nothing
\* and may deliver a request more than once
UpdateNext ==
  \/ \E x \in Peers, params \in UpgradeParams :
       \E t \in DOMAIN settled[x] : Upgrade(x, t, params, TRUE)
  \/ \E x \in Peers, params \in UpdateParams :
       \E t \in DOMAIN settled[x] : Update(x, t, params, TRUE)
  \/ \E m \in net, keep \in BOOLEAN : OnUpdate(m, keep)
  \/ \E m \in net, keep \in BOOLEAN : OnUpgrade(m, keep)

SpecUpdate == RequestInit /\ [][UpdateNext]_vars

\* The create call and the request calls of one run with their timers: the
\* handshake from the start, then requests on the session it settles
CallsNext ==
  \/ \E controller \in BOOLEAN, perms \in ProposalPerms, ok \in BOOLEAN :
       Propose(controller, perms, ok)
  \/ \E error \in ProposeErrors : ProposeInvalid(error)
  \/ CreateListen
  \/ CreateTimeout
  \/ \E m \in net, approved \in BOOLEAN, accounts \in RespondAccounts, f \in RespondFaults :
       Respond(m, approved, Absent, accounts, f)
  \/ \E m \in net, okSettle \in BOOLEAN : OnResponse(m, FALSE, okSettle)
  \/ \E task \in tasks : OnResponseResume(task)
  \/ \E x \in Peers, method \in Methods, ok \in BOOLEAN :
       \E t \in DOMAIN settled[x] : Request(x, t, method, Absent, ok)
  \/ \E x \in Peers : \E id \in DOMAIN requests[x] : RequestTimeout(x, id)
  \/ \E m \in net : OnPayload(m, FALSE)
  \/ \E task \in tasks : OnPayloadEventResume(task)
  \/ \E x \in Peers, error \in ResponseErrors :
       \E t \in DOMAIN settled[x], i \in DOMAIN history[x] :
         SendResponse(x, t, history[x][i].id, error, TRUE)
  \/ \E m \in net : OnResponseEvent(m, FALSE)

SpecCalls == Init /\ [][CallsNext]_vars

----------------------------------------------------------------------------
\* Properties of the handshake

C2_SameSettledTopic ==
  /\ \A ta \in DOMAIN settled[Initiator], tb \in DOMAIN settled[Responder] :
       (/\ settled[Initiator][ta].peer.publicKey = settled[Responder][tb].self.publicKey
        /\ settled[Responder][tb].peer.publicKey = settled[Initiator][ta].self.publicKey)
       => ta = tb
  /\ \A task \in tasks, m \in net :
       (/\ task.kind = "onResponse" /\ ~isSessionFailed(task.outcome)
        /\ m.method = "wc_sessionApprove"
        /\ m.params.responder.publicKey = task.outcome.responder.publicKey)
       => task.outcome.topic = m.params.topic

\* both peers hold the session of one handshake
C2_Witness ==
  \E ta \in DOMAIN settled[Initiator], tb \in DOMAIN settled[Responder] :
    /\ settled[Initiator][ta].peer.publicKey = settled[Responder][tb].self.publicKey
    /\ settled[Responder][tb].peer.publicKey = settled[Initiator][ta].self.publicKey
    /\ ta = tb

\* C3: at most one `settled` event is emitted on the initiator per handshake,
\* however often the approve is redelivered.
C3_OneSettledEvent ==
  \A k \in DOMAIN events[Initiator] : k[1] = "settled" => events[Initiator][k] <= 1

----------------------------------------------------------------------------
\* Properties of a settled session (checked under SpecSession)

IsController(x, t) ==
  settled[x][t].self.publicKey = settled[x][t].permissions.controller.publicKey

Granted(session) ==
  [chains |-> Range(session.permissions.chains),
   methods |-> Range(session.permissions.methods),
   types |-> Range(session.permissions.notifications.types)]

\* C4: upgrade is monotonic: no step removes a granted chain, method or
\* notification type from a settled record.
C4_UpgradeMonotonic ==
  [][\A x \in Peers : \A t \in DOMAIN settled[x] \cap DOMAIN settled'[x] :
       /\ Granted(settled[x][t]).chains \subseteq Granted(settled'[x][t]).chains
       /\ Granted(settled[x][t]).methods \subseteq Granted(settled'[x][t]).methods
       /\ Granted(settled[x][t]).types \subseteq Granted(settled'[x][t]).types]_vars

\* an upgrade added a chain on both peers
C4_Witness ==
  \A x \in Peers : \E t \in DOMAIN settled[x] :
    Granted(settled[x][t]).chains = {"c1", "c2"}

\* C5: upgrade by a peer that is not the controller fails with
\* UNAUTHORIZED_UPGRADE_REQUEST, leaves the settled records unchanged and
\* publishes nothing.
C5_UpgradeUnauthorized ==
  [][\A x \in Peers, params \in UpgradeParams, ok \in BOOLEAN : \A t \in DOMAIN settled[x] :
       (Upgrade(x, t, params, ok) /\ ~IsController(x, t)) =>
         /\ last'.result = "UNAUTHORIZED_UPGRADE_REQUEST"
         /\ settled' = settled
         /\ net' = net]_vars

C5_Witness ==
  /\ last.op = "upgrade" /\ last.result = "UNAUTHORIZED_UPGRADE_REQUEST"
  /\ \E t \in DOMAIN settled[last.peer] : ~IsController(last.peer, t)

\* C6 (as stated): update by a peer that is not the controller is rejected
\* with UNAUTHORIZED_UPDATE_REQUEST for every input, changes no accounts and
\* publishes nothing.
C6_UpdateUnauthorizedEveryInput ==
  [][\A x \in Peers, params \in UpdateParams, ok \in BOOLEAN : \A t \in DOMAIN settled[x] :
       (Update(x, t, params, ok) /\ ~IsController(x, t)) =>
         /\ last'.result = "UNAUTHORIZED_UPDATE_REQUEST"
         /\ settled' = settled
         /\ net' = net]_vars

\* C6 (amended): update by a peer that is not the controller is rejected with
\* UNAUTHORIZED_UPDATE_REQUEST when the params carry a state and with
\* INVALID_UPDATE_REQUEST when they carry none; either way no settled record
\* changes and nothing is published.
C6_UpdateUnauthorized ==
  [][\A x \in Peers, params \in UpdateParams, ok \in BOOLEAN : \A t \in DOMAIN settled[x] :
       (Update(x, t, params, ok) /\ ~IsController(x, t)) =>
         /\ last'.result = (IF params.hasState THEN "UNAUTHORIZED_UPDATE_REQUEST"
                            ELSE "INVALID_UPDATE_REQUEST")
         /\ settled' = settled
         /\ net' = net]_vars

C6_Witness ==
  /\ last.op = "update" /\ last.result = "UNAUTHORIZED_UPDATE_REQUEST"
  /\ \E t \in DOMAIN settled[last.peer] : ~IsController(last.peer, t)

\* C7: update by the controller with {state: {accounts}} replaces
\* state.accounts with exactly the given accounts and leaves every other field
\* of the record, and the other peer's record, unchanged; so does the inbound
\* wc_sessionUpdate of the controller on the peer's record.
C7_UpdateReplacesAccounts ==
  [][/\ \A x \in Peers, params \in UpdateParams, ok \in BOOLEAN : \A t \in DOMAIN settled[x] :
          (Update(x, t, params, ok) /\ IsController(x, t)
             /\ params.hasState /\ params.accounts.defined) =>
            settled' = [settled EXCEPT ![x][t].state.accounts = params.accounts.value]
     /\ \A m \in net, keep \in BOOLEAN :
          (OnUpdate(m, keep) /\ ~IsController(Other(m.from), m.topic)
             /\ m.params.hasState /\ m.params.accounts.defined) =>
            settled' = [settled EXCEPT
                          ![Other(m.from)][m.topic].state.accounts = m.params.accounts.value]
    ]_vars

\* the controller replaced the accounts and the peer applied the update
C7_Witness ==
  /\ last.op = "update" /\ last.result = "returned"
  /\ \A x \in Peers : \E t \in DOMAIN settled[x] : settled[x][t].state.accounts = <<"a2">>

\* C8: send of a request that is not a built-in method publishes only if the
\* method is granted and the chainId, when given, is granted; otherwise it
\* fails with UNAUTHORIZED_JSON_RPC_METHOD (resp. UNAUTHORIZED_TARGET_CHAIN),
\* publishes nothing and records no history entry.
C8_SendAuthorized ==
  [][\A x \in Peers, method \in Methods, chainId \in Chains \cup {Absent}, ok \in BOOLEAN :
       \A t \in DOMAIN settled[x] :
         Send(x, t, method, chainId, ok) =>
           LET methodOk == method \in Granted(settled[x][t]).methods
               chainOk == chainId = Absent \/ chainId \in Granted(settled[x][t]).chains
           IN /\ ~methodOk =>
                   /\ last'.result = "UNAUTHORIZED_JSON_RPC_METHOD"
                   /\ net' = net /\ history' = history
              /\ (methodOk /\ ~chainOk) =>
                   /\ last'.result = "UNAUTHORIZED_TARGET_CHAIN"
                   /\ net' = net /\ history' = history
              /\ (methodOk /\ chainOk /\ ok) =>
                   /\ last'.result = "returned"
                   /\ \E msg \in net' \ net :
                        /\ msg.method = "wc_sessionPayload"
                        /\ msg.params.request.method = method
                        /\ HistoryExists(history'[x], t, msg.id)]_vars

\* a send was refused for its target chain although its method is granted
C8_Witness ==
  /\ last.op = "send" /\ last.result = "UNAUTHORIZED_TARGET_CHAIN"
  /\ net = {}

C10_NoDuplicateEvent ==
  \A x \in Peers : \A k \in DOMAIN events[x] :
    (k[1] \in {"request", "notification", "updated"} /\ k[3] # 0) => events[x][k] <= 1

\* C11: deleting a settled session (delete, inbound wc_sessionDelete,
\* acknowledgement rollback, expiry) purges the history of its topic: no peer
\* holds a history entry for a topic it has no settled record of, so
\* history.exists(topic, id) is false for every id once the session is gone.
C11_DeletePurgesHistory ==
  \A x \in Peers : \A i \in DOMAIN history[x] : Has(settled[x], history[x][i].topic)

\* a request was recorded and surfaced on a session that has since been deleted
C11_Witness ==
  \E x \in Peers : \E k \in DOMAIN events[x] :
    /\ k[1] = "request"
    /\ ~Has(settled[x], k[2])
    /\ Count(events[x], <<"deleted", k[2], 0>>) = 1
    /\ ~HistoryExists(history[x], k[2], k[3])

C13_CreateResolves ==
  [][\A task \in tasks :
       (/\ OnResponseResume(task)
        /\ task.peer = Initiator
        /\ Has(pending[Initiator], task.topic)
        /\ ~isSessionFailed(task.outcome)
        /\ Has(settled[Initiator], task.outcome.topic)
        /\ create.result = "pending") =>
         /\ create'.result = "resolved"
         /\ create'.session = task.outcome.topic
         /\ ~Has(pending'[Initiator], task.topic)]_vars

\* C14: when a failure outcome is recorded on the initiator's pending record
\* (the responder's reject, or the initiator's own failed settle), create
\* deletes the pending record and, still waiting, rejects with the reason of
\* the outcome; it hands no settled record to the caller.
C14_CreateRejects ==
  [][/\ \A m \in net, keep \in BOOLEAN, okSettle \in BOOLEAN :
          (OnResponse(m, keep, okSettle) /\ isSessionFailed(m.params)) =>
            /\ ~Has(pending'[Initiator], m.topic)
            /\ create.result = "pending" => create'.result = m.params.reason
            /\ create'.session = create.session
     /\ \A task \in tasks :
          (/\ OnResponseResume(task)
           /\ Has(pending[Initiator], task.topic)
           /\ isSessionFailed(task.outcome)) =>
            /\ ~Has(pending'[Initiator], task.topic)
            /\ create.result = "pending" => create'.result = task.outcome.reason
            /\ create'.session = create.session]_vars

\* C15 (as stated): an acknowledgement for a responded pending record deletes that
\* record, and an error acknowledgement of an approval also deletes the
\* settled record of the outcome; consequently, once the initiator has recorded
\* the responder's outcome and nothing of the handshake is in flight any more,
\* the responder holds no pending record for the proposal.
C15_AcknowledgeDeletesPending ==
  /\ [][\A m \in net, keep \in BOOLEAN :
          (OnAcknowledge(m, keep) /\ isSessionResponded(pending[Other(m.from)][m.topic])) =>
            /\ ~Has(pending'[Other(m.from)], m.topic)
            /\ (isJsonRpcError(m)
                  /\ ~isSessionFailed(pending[Other(m.from)][m.topic].outcome)) =>
                 ~Has(settled'[Other(m.from)], pending[Other(m.from)][m.topic].outcome.topic)
         ]_vars
  /\ []((/\ Count(events[Initiator], <<"responded", ProposalTopic, 0>>) > 0
         /\ tasks = {}
         /\ \A m \in net : m.topic # ProposalTopic)
        => ~Has(pending[Responder], ProposalTopic))

\* C15 (amended): an acknowledgement for a responded pending record deletes
\* that record, and an error acknowledgement of an approval also deletes the
\* settled record of the outcome and tells the peer with a wc_sessionDelete
\* carrying that error; once the initiator has recorded the outcome and nothing
\* of the handshake is in flight, the responder holds no pending record of an
\* approved outcome (a reject or failure outcome is never acknowledged, its
\* record stays).
C15_AcknowledgeApproved ==
  /\ [][\A m \in net, keep \in BOOLEAN :
          (OnAcknowledge(m, keep) /\ isSessionResponded(pending[Other(m.from)][m.topic])) =>
            /\ ~Has(pending'[Other(m.from)], m.topic)
            /\ (/\ isJsonRpcError(m)
                /\ ~isSessionFailed(pending[Other(m.from)][m.topic].outcome)
                /\ Has(settled[Other(m.from)], pending[Other(m.from)][m.topic].outcome.topic)) =>
                 /\ ~Has(settled'[Other(m.from)], pending[Other(m.from)][m.topic].outcome.topic)
                 /\ \E d \in net' \ net : d.method = "wc_sessionDelete"
                                            /\ d.params.reason = m.error
         ]_vars
  /\ []((/\ Count(events[Initiator], <<"responded", ProposalTopic, 0>>) > 0
         /\ tasks = {}
         /\ \A m \in net : m.topic # ProposalTopic)
        => \/ ~Has(pending[Responder], ProposalTopic)
           \/ isSessionFailed(pending[Responder][ProposalTopic].outcome))

\* the initiator's settle failed, its error acknowledgement arrived, and the
\* responder rolled its settled record back and dropped the pending record
C15_Witness ==
  /\ Count(events[Initiator], <<"responded", ProposalTopic, 0>>) > 0
  /\ ~Has(pending[Responder], ProposalTopic)
  /\ DOMAIN settled[Responder] = {}
  /\ \E k \in DOMAIN events[Responder] : k[1] = "deleted"
  /\ \E d \in net : d.method = "wc_sessionDelete" /\ d.params.reason = "GENERIC"
  /\ last.op = "respond" /\ last.approved /\ last.result = "returned"

\* C16: respond with approved=true never throws on a settlement failure:
\* whatever fails, it returns, and the proposal topic then holds a responded
\* pending record, whose outcome carries a failure reason when settle or the
\* write of the approved record failed.
C16_RespondApproveNeverThrows ==
  [][\A m \in net, reason \in RejectReasons, accounts \in RespondAccounts, f \in RespondFaults :
       Respond(m, TRUE, reason, accounts, f) =>
         /\ last'.result = "returned"
         /\ Has(pending'[Responder], m.params.topic)
         /\ isSessionResponded(pending'[Responder][m.params.topic])
         /\ (~f.settle \/ ~f.pending1) =>
              isSessionFailed(pending'[Responder][m.params.topic].outcome)]_vars

\* C17: every settled record names one controller, which is one of its two
\* peers; both peers of a session record the same controller; it is the
\* proposer when the proposal's controller flag is set and the responder
\* otherwise; and no step changes the controller of a settled record.
C17_OneController ==
  /\ [](\A x \in Peers : \A t \in DOMAIN settled[x] :
          /\ settled[x][t].permissions.controller.publicKey
               \in {settled[x][t].self.publicKey, settled[x][t].peer.publicKey}
          /\ Has(settled[Other(x)], t) =>
               settled[Other(x)][t].permissions.controller.publicKey
                 = settled[x][t].permissions.controller.publicKey)
  /\ [](\A t \in DOMAIN pending[Responder] :
          (/\ isSessionResponded(pending[Responder][t])
           /\ ~isSessionFailed(pending[Responder][t].outcome)
           /\ Has(settled[Responder], pending[Responder][t].outcome.topic)) =>
            settled[Responder][pending[Responder][t].outcome.topic].permissions.controller.publicKey
              = (IF pending[Responder][t].proposal.proposer.controller
                 THEN pending[Responder][t].proposal.proposer.publicKey
                 ELSE pending[Responder][t].self.publicKey))
  /\ [][\A x \in Peers : \A t \in DOMAIN settled[x] \cap DOMAIN settled'[x] :
          settled'[x][t].permissions.controller = settled[x][t].permissions.controller]_vars

\* the responder controls a session (the proposer did not ask for control)
\* that both peers hold and that has since been upgraded
C17_Witness ==
  /\ \A x \in Peers : \E t \in DOMAIN settled[x] :
       /\ settled[x][t].permissions.controller.publicKey = PublicKey(2)
       /\ Granted(settled[x][t]).chains = {"c1", "c2"}
  /\ Has(pending[Responder], ProposalTopic)


\* C18: an inbound request on a settled topic whose method onMessage has no
\* case for is answered: an UNKNOWN_JSONRPC_METHOD error with the request's id
\* is published to the peer on that topic
C18_UnknownMethodAnswered ==
  [][\A m \in net, keep \in BOOLEAN :
       OnUnknown(m, keep) =>
         formatJsonRpcError(m.topic, Other(m.from), m.id, "UNKNOWN_JSONRPC_METHOD") \in net']_vars

\* how a request of peer x with this id stood before and after a step (a
\* request that did not exist yet was pending: its promise had not settled)
RequestBefore(x, id) == IF Has(requests[x], id) THEN requests[x][id].result ELSE "pending"
RequestAfter(x, id) == requests'[x][id].result

\* the step emitted a `response` event with the request's topic and id, and the
\* request took the response's outcome
SettledByResponse(x, id) ==
  /\ Count(events'[x], <<"response", requests'[x][id].topic, id>>)
       = Count(events[x], <<"response", requests'[x][id].topic, id>>) + 1
  /\ RequestAfter(x, id) \in {"resolved"} \cup (ResponseErrors \ {Absent})

\* the step was the request's timer
SettledByTimeout(x, id) ==
  RequestTimeout(x, id) /\ RequestAfter(x, id) = "JSONRPC_REQUEST_TIMEOUT"

\* the step was the request() call itself, whose send failed
SettledBySend(x, id) ==
  /\ ~Has(requests[x], id)
  /\ last'.op = "request" /\ last'.peer = x
  /\ last'.result # "returned"
  /\ RequestAfter(x, id) = last'.result

\* a matching response settles a pending request, and the timer of a pending
\* request rejects it with JSONRPC_REQUEST_TIMEOUT
RequestSettles ==
  /\ [][\A m \in net, keep \in BOOLEAN :
          OnResponseEvent(m, keep) /\ HistoryExists(history[Other(m.from)], m.topic, m.id) =>
            \A id \in DOMAIN requests[Other(m.from)] :
              (/\ requests[Other(m.from)][id].result = "pending"
               /\ requests[Other(m.from)][id].topic = m.topic
               /\ id = m.id)
              => RequestAfter(Other(m.from), id)
                   = (IF isJsonRpcError(m) THEN m.error ELSE "resolved")]_vars
  /\ [][\A x \in Peers : \A id \in DOMAIN requests[x] :
          RequestTimeout(x, id) /\ requests[x][id].result = "pending"
            => RequestAfter(x, id) = "JSONRPC_REQUEST_TIMEOUT"]_vars

C20_PingAnswered ==
  /\ [][\A m \in net, keep \in BOOLEAN :
          OnPing(m, keep) =>
            formatJsonRpcResult(m.topic, Other(m.from), m.id) \in net']_vars
  /\ [][\A m \in net, keep \in BOOLEAN :
          (/\ OnResponseEvent(m, keep)
           /\ ~isJsonRpcError(m)
           /\ Has(requests[Other(m.from)], m.id)
           /\ requests[Other(m.from)][m.id].result = "pending"
           /\ requests[Other(m.from)][m.id].topic = m.topic)
          => /\ Count(events'[Other(m.from)], <<"response", m.topic, m.id>>)
                  = Count(events[Other(m.from)], <<"response", m.topic, m.id>>) + 1
             /\ RequestAfter(Other(m.from), m.id) = "resolved"]_vars

\* the notification type is one the session's permissions list
NotificationTypeGranted(session, type) ==
  /\ session.permissions.notifications.defined
  /\ Includes(session.permissions.notifications.types, type)

\* C21: notify publishes a wc_sessionNotification only when the caller is the
\* controller or the type is granted; any other call fails with
\* UNAUTHORIZED_NOTIFICATION_TYPE and publishes nothing; the controller may
\* notify with any type
C21_NotifyAuthorized ==
  [][\A x \in Peers, type \in Types, ok \in BOOLEAN : \A t \in DOMAIN settled[x] :
       Notify(x, t, type, ok) =>
         IF IsController(x, t) \/ NotificationTypeGranted(settled[x][t], type)
         THEN /\ last'.result \in {"returned", "TRANSPORT"}
              /\ ok => \E m \in net' \ net :
                         /\ m.method = "wc_sessionNotification"
                         /\ m.topic = t /\ m.from = x /\ m.params.type = type
         ELSE /\ last'.result = "UNAUTHORIZED_NOTIFICATION_TYPE"
              /\ net' = net]_vars

\* the stores, the relay and the emitted events are what they were
NothingWritten ==
  /\ pending' = pending
  /\ settled' = settled
  /\ history' = history
  /\ events' = events
  /\ net' = net

\* C22: a create or respond call refused by validation writes no pending and
\* no settled record, publishes nothing and surfaces the error to its caller
C22_ValidationBeforeMutation ==
  /\ [][\A error \in ProposeErrors :
          ProposeInvalid(error) =>
            NothingWritten /\ create'.result = error /\ last'.result = error]_vars
  /\ [][\A m \in net :
          RespondInvalid(m) => NothingWritten /\ last'.result = "MISSING_OR_INVALID"]_vars
  /\ [](create.result \in ProposeErrors =>
          /\ ~Has(pending[Initiator], ProposalTopic)
          /\ \A m \in net : m.method # "wc_sessionPropose")

\* respond refused a received proposal: the proposal is still in flight, the
\* initiator's proposed record is in place and the responder holds nothing
C22_Witness ==
  /\ last.op = "respond" /\ last.result = "MISSING_OR_INVALID"
  /\ Has(pending[Initiator], ProposalTopic)
  /\ pending[Responder] = EmptyStore
  /\ settled[Responder] = EmptyStore
  /\ \E m \in net : m.method = "wc_sessionPropose"

\* C23: a create or request call that ended otherwise than by its timeout has
\* its timer disarmed, and a timer fires only for a call that is still waiting
C23_TimersCleared ==
  /\ [](create.result \notin {"pending", "SETTLE_TIMEOUT"} => ~create.timer)
  /\ [](\A x \in Peers : \A id \in DOMAIN requests[x] :
          requests[x][id].result \notin {"pending", "JSONRPC_REQUEST_TIMEOUT"}
            => ~requests[x][id].timer)
  /\ [][CreateTimeout => create.result = "pending"]_vars
  /\ [][\A x \in Peers : \A id \in DOMAIN requests[x] :
          RequestTimeout(x, id) => requests[x][id].result = "pending"]_vars

\* create resolved with its session, one request was resolved by its response
\* and another rejected because its send failed; no timer is armed
C23_Witness ==
  /\ create.result = "resolved" /\ ~create.timer
  /\ \E x \in Peers : \E id, other \in DOMAIN requests[x] :
       /\ requests[x][id].result = "resolved" /\ ~requests[x][id].timer
       /\ requests[x][other].result = "UNAUTHORIZED_JSON_RPC_METHOD"
       /\ ~requests[x][other].timer

\* a peer has deleted a settled record
SomeDeleted == \E x \in Peers : \E k \in DOMAIN events[x] : k[1] = "deleted"

\* C24: delete removes the local record, purges its history and publishes a
\* wc_sessionDelete; the peer that receives it removes its own record; once a
\* side has deleted, both sides eventually hold no record, and no peer deletes
\* (and so publishes a wc_sessionDelete for) the same topic twice
C24_DeleteTerminates ==
  /\ [][\A x \in Peers : \A t \in DOMAIN settled[x] :
          Delete(x, t) =>
            /\ ~Has(settled'[x], t)
            /\ \A i \in DOMAIN history'[x] : history'[x][i].topic # t
            /\ \E m \in net' \ net :
                 m.method = "wc_sessionDelete" /\ m.topic = t /\ m.from = x]_vars
  /\ [][\A m \in net, keep \in BOOLEAN :
          OnDelete(m, keep) => ~Has(settled'[Other(m.from)], m.topic)]_vars
  /\ [](\A x \in Peers : \A k \in DOMAIN events[x] : k[1] = "deleted" => events[x][k] = 1)
  /\ (SomeDeleted ~> (\A x \in Peers : settled[x] = EmptyStore))

\* both peers have deleted the session, each exactly once, after it carried a
\* request; the second delete message stays undelivered on the relay
C24_Witness ==
  /\ \A x \in Peers : settled[x] = EmptyStore /\ history[x] = <<>>
  /\ \A x \in Peers : \E k \in DOMAIN events[x] : k[1] = "deleted" /\ events[x][k] = 1
  /\ \E x \in Peers : \E k \in DOMAIN events[x] : k[1] = "request"
  /\ \E m \in net : m.method = "wc_sessionDelete"

\* the approve / reject requests a step publishes
OutcomeRequests == {m \in net' \ net : m.method \in {"wc_sessionApprove", "wc_sessionReject"}}

\* C25: a created proposed record sends exactly one wc_sessionPropose, not on
\* the record's own topic; a created responded record publishes exactly one
\* approve (outcome approved) or reject (outcome failed) request on the pending
\* topic; a record that becomes responded by an update publishes neither
C25_WireSteps ==
  [][\A x \in Peers : \A t \in DOMAIN pending'[x] :
       LET pend == pending'[x][t] IN
       /\ (~Has(pending[x], t) /\ pend.status = "proposed") =>
            /\ Cardinality(net' \ net) = 1
            /\ \A m \in net' \ net :
                 /\ m.method = "wc_sessionPropose" /\ m.from = x
                 /\ m.params = pend.proposal
                 /\ m.topic # t
       /\ (~Has(pending[x], t) /\ pend.status = "responded") =>
            /\ Cardinality(net' \ net) = 1
            /\ \A m \in net' \ net :
                 /\ m.method = (IF isSessionFailed(pend.outcome) THEN "wc_sessionReject"
                                ELSE "wc_sessionApprove")
                 /\ m.from = x /\ m.topic = t /\ m.params = pend.outcome
       /\ (Has(pending[x], t) /\ pending[x][t].status # "responded"
           /\ pend.status = "responded") => OutcomeRequests = {}]_vars

\* the responder's record was created responded and the initiator's record
\* became responded by the update onResponse made; the proposal is still on the
\* pairing channel and the approve request was consumed
C25_Witness ==
  /\ Has(pending[Responder], ProposalTopic)
  /\ pending[Responder][ProposalTopic].status = "responded"
  /\ Has(pending[Initiator], ProposalTopic)
  /\ pending[Initiator][ProposalTopic].status = "responded"
  /\ \E m \in net : m.method = "wc_sessionPropose" /\ m.topic # ProposalTopic
  /\ \A m \in net : m.method \notin {"wc_sessionApprove", "wc_sessionReject"}

\* every update and upgrade request published so far has been processed
UpdatesProcessed == \A m \in net : m.method \notin {"wc_sessionUpdate", "wc_sessionUpgrade"}

\* C26: once every update and upgrade the controller committed has been
\* delivered to and processed by the peer, whether once or more than once, the
\* two settled records hold the same accounts and the same permission sets
C26_PeersAgree ==
  [](UpdatesProcessed =>
       \A t \in DOMAIN settled[Initiator] \cap DOMAIN settled[Responder] :
         /\ settled[Initiator][t].state.accounts = settled[Responder][t].state.accounts
         /\ Granted(settled[Initiator][t]) = Granted(settled[Responder][t]))

\* C27: upgrade by the controller succeeds whether or not the session or the
\* parameters carry each sub-permission, and every resulting set is the union
\* of the session's set and the parameters' set, an absent one counting as empty
C27_UpgradeAbsentIsEmpty ==
  [][\A x \in Peers, params \in UpgradeParams, ok \in BOOLEAN : \A t \in DOMAIN settled[x] :
       (Upgrade(x, t, params, ok) /\ IsController(x, t)) =>
         /\ last'.result \in {"returned", "TRANSPORT"}
         /\ Granted(settled'[x][t]) =
              [chains |-> Granted(settled[x][t]).chains \cup Range(OrEmpty(params.chains)),
               methods |-> Granted(settled[x][t]).methods \cup Range(OrEmpty(params.methods)),
               types |-> Granted(settled[x][t]).types
                           \cup Range(OrEmpty(params.notifications))]]_vars

\* C28: every request on the relay carries a built-in session method; send
\* publishes a request of another method as a wc_sessionPayload with the same
\* id whose params carry the method, the params and the chain, and onPayload
\* rebuilds from it a request with the same id, method and params, which is
\* the one it hands on
C28_UniformEnvelope ==
  /\ [](\A m \in net : isJsonRpcRequest(m) => m.method \in SESSION_JSONRPC)
  /\ [][\A x \in Peers, method \in Methods, chainId \in Chains \cup {Absent}, ok \in BOOLEAN :
          \A t \in DOMAIN settled[x] :
            (Send(x, t, method, chainId, ok) /\ last'.result = "returned") =>
              /\ Cardinality(net' \ net) = 1
              /\ \A m \in net' \ net :
                   /\ m.method = "wc_sessionPayload" /\ m.topic = t
                   /\ m.id = payloadId(x)
                   /\ m.params = [chainId |-> chainId,
                                  request |-> [method |-> method, params |-> ParamsOf(method)]]
                   /\ onPayloadRequest(m) = [id |-> payloadId(x), method |-> method,
                                             params |-> ParamsOf(method)]]_vars
  /\ [][\A m \in net, keep \in BOOLEAN :
          OnPayload(m, keep) =>
            \A task \in tasks' \ tasks :
              /\ task.id = m.id /\ task.topic = m.topic
              /\ Includes(settled[task.peer][m.topic].permissions.methods,
                          m.params.request.method)]_vars

\* a request sent by one peer was rebuilt and surfaced by the other under the
\* id the sender recorded
C28_Witness ==
  \E x \in Peers : \E k \in DOMAIN events[x] :
    /\ k[1] = "request"
    /\ HistoryExists(history[Other(x)], k[2], k[3])
    /\ HistoryExists(history[x], k[2], k[3])

\* C29: an inbound wc_sessionPayload whose inner method the receiving session
\* does not grant surfaces no request event and adds no history entry
C29_InboundAuthorized ==
  [][\A m \in net, keep \in BOOLEAN :
       (/\ OnPayload(m, keep)
        /\ Has(settled[Other(m.from)], m.topic)
        /\ m.params.request.method
             \notin Granted(settled[Other(m.from)][m.topic]).methods)
       => /\ events' = events
          /\ tasks' = tasks
          /\ history' = history]_vars

\* a payload with a method only the sender's record grants was delivered (the
\* relay kept it for redelivery) and the receiver surfaced and recorded nothing
C29_Witness ==
  /\ dups = 1
  /\ \E m \in net :
       /\ m.method = "wc_sessionPayload"
       /\ Has(settled[Other(m.from)], m.topic)
       /\ m.params.request.method \notin Granted(settled[Other(m.from)][m.topic]).methods
       /\ m.params.request.method \in Granted(settled[m.from][m.topic]).methods
       /\ \A n \in net : n.method # "wc_sessionUpgrade"
       /\ Granted(settled[Other(m.from)][m.topic]).methods = {"m1"}
       /\ history[Other(m.from)] = <<>>
       /\ events[Other(m.from)] = NoEvents

\* the listeners the calls have registered: request registers one on `response`
\* before it sends and create one on pending `updated` once propose returned;
\* neither call ever removes its listener
RequestListening(x, id) == Has(requests[x], id)
CreateListening == create.stage = "listening"

\* C30: a create or request call that has ended, however it ended, holds no
\* listener any more, and the late response of a call that timed out changes
\* nothing the call's listener could touch
C30_ListenersRemoved ==
  /\ [](\A x \in Peers : \A id \in DOMAIN requests[x] :
          requests[x][id].result # "pending" => ~RequestListening(x, id))
  /\ [](create.result # "pending" => ~CreateListening)
  /\ [][(create.result = "SETTLE_TIMEOUT" /\ Has(pending[Initiator], ProposalTopic))
          => Has(pending'[Initiator], ProposalTopic)]_vars

\* the step is a propose or a respond call
RecordCreatingCall ==
  \/ \E controller \in BOOLEAN, perms \in ProposalPerms, ok \in BOOLEAN :
       Propose(controller, perms, ok)
  \/ \E m \in net, approved \in BOOLEAN, reason \in RejectReasons,
        accounts \in RespondAccounts, f \in RespondFaults :
       Respond(m, approved, reason, accounts, f)

\* C31: a responded pending record stays responded until it is deleted, and a
\* pending record comes into being only in a propose or respond call, never in
\* the handling of an inbound message
C31_PendingForward ==
  [][\A x \in Peers : \A t \in DOMAIN pending'[x] :
       /\ (Has(pending[x], t) /\ pending[x][t].status = "responded")
            => pending'[x][t].status = "responded"
       /\ ~Has(pending[x], t) => RecordCreatingCall]_vars

\* the initiator's record was proposed, became responded and was deleted by
\* create's listener, while the responder's record is responded
C31_Witness ==
  /\ Count(events[Initiator], <<"proposed", ProposalTopic, 0>>) = 1
  /\ Count(events[Initiator], <<"responded", ProposalTopic, 0>>) = 1
  /\ ~Has(pending[Initiator], ProposalTopic)
  /\ Has(pending[Responder], ProposalTopic)
  /\ pending[Responder][ProposalTopic].status = "responded"

\* C32: an approve that reaches the initiator when it already holds the settled
\* record the approve leads to is not answered with a failure, and a pending
\* record whose approved outcome names a settled record the initiator holds
\* never has that outcome replaced by a failure reason
C32_DuplicateApprove ==
  /\ [][\A m \in net, keep \in BOOLEAN, okSettle \in BOOLEAN :
          (/\ OnResponse(m, keep, okSettle)
           /\ m.method = "wc_sessionApprove"
           /\ Has(settled[Other(m.from)],
                  onResponseSession(pending[Other(m.from)][m.topic], m.params).topic))
          => \A task \in tasks' \ tasks : ~isSessionFailed(task.outcome)]_vars
  /\ [][\A t \in DOMAIN pending[Initiator] \cap DOMAIN pending'[Initiator] :
          (/\ isSessionResponded(pending[Initiator][t])
           /\ ~isSessionFailed(pending[Initiator][t].outcome)
           /\ Has(settled[Initiator], pending[Initiator][t].outcome.topic))
          => ~isSessionFailed(pending'[Initiator][t].outcome)]_vars
  /\ [][\A task \in tasks :
          (/\ OnResponseResume(task)
           /\ \E k \in DOMAIN events[Initiator] : k[1] = "settled")
          => \A m \in net' \ net : ~isJsonRpcError(m)]_vars

\* the handshake has run and come to rest: nothing is in flight on the pending
\* topic, no handler is suspended and both pending records are deleted
HandshakeQuiesced ==
  /\ Count(events[Initiator], <<"proposed", ProposalTopic, 0>>) = 1
  /\ tasks = {}
  /\ \A m \in net : m.topic # ProposalTopic
  /\ \A x \in Peers : ~Has(pending[x], ProposalTopic)

\* C33: after a handshake has quiesced the initiator holds a settled record
\* for a topic exactly if the responder holds one, and onAcknowledge deletes
\* the responder's settled record only when the initiator holds none for it
C33_SettlementAgreement ==
  /\ [](HandshakeQuiesced => DOMAIN settled[Initiator] = DOMAIN settled[Responder])
  /\ [][\A m \in net, keep \in BOOLEAN :
          OnAcknowledge(m, keep) =>
            \A t \in DOMAIN settled[Responder] \ DOMAIN settled'[Responder] :
              ~Has(settled[Initiator], t)]_vars

\* C34: every settled record a respond(approved) call creates is the one the
\* responded pending record of that proposal names in outcome.topic, whether
\* the call returns or throws
C34_NoOrphanSettled ==
  [][\A m \in net, reason \in RejectReasons, accounts \in RespondAccounts, f \in RespondFaults :
       Respond(m, TRUE, reason, accounts, f) =>
         \A t \in DOMAIN settled'[Responder] \ DOMAIN settled[Responder] :
           /\ Has(pending'[Responder], m.params.topic)
           /\ isSessionResponded(pending'[Responder][m.params.topic])
           /\ ~isSessionFailed(pending'[Responder][m.params.topic].outcome)
           /\ pending'[Responder][m.params.topic].outcome.topic = t]_vars

----------------------------------------------------------------------------
\* send(topic, request) called directly with a built-in wc_sessionUpdate or
\* wc_sessionUpgrade request: the permission checks and history.set are
\* skipped and the request is published as it is
SendRaw(x, t, method, params, ok) ==
  /\ Has(settled[x], t)
  /\ IdsUsed < MaxIds
  /\ nextId' = UsedId(x)
  /\ net' = Publish(net, formatJsonRpcRequest(t, x, payloadId(x), method, params), ok)
  /\ last' = Call("send", x, IF ok THEN "returned" ELSE "TRANSPORT", FALSE)
  /\ UNCHANGED <<pending, settled, history, events, dups, tasks, create, nextKey, requests>>
  /\ UNCHANGED server

\* Updates and upgrades of a settled session by either peer, through
\* update/upgrade or through a raw send of the built-in request
RawNext ==
  \/ \E x \in Peers, params \in UpgradeParams, ok \in BOOLEAN :
       \E t \in DOMAIN settled[x] : Upgrade(x, t, params, ok)
  \/ \E x \in Peers, params \in UpdateParams, ok \in BOOLEAN :
       \E t \in DOMAIN settled[x] : Update(x, t, params, ok)
  \/ \E x \in Peers, params \in UpdateParams, ok \in BOOLEAN :
       \E t \in DOMAIN settled[x] : SendRaw(x, t, "wc_sessionUpdate", params, ok)
  \/ \E x \in Peers, params \in UpgradeParams, ok \in BOOLEAN :
       \E t \in DOMAIN settled[x] : SendRaw(x, t, "wc_sessionUpgrade", params, ok)
  \/ \E m \in net, keep \in BOOLEAN : OnUpdate(m, keep)
  \/ \E m \in net, keep \in BOOLEAN : OnUpgrade(m, keep)
SpecRaw == RequestInit /\ [][RawNext]_vars

\* C35: permissions and state.accounts of a settled record change only in an
\* update or upgrade call of the controller on its own record, or when the
\* other peer processes a request the controller sent; nothing a
\* non-controller calls, a raw send included, changes either record
C35_ControllerOnly ==
  [][\A x \in Peers : \A t \in DOMAIN settled[x] \cap DOMAIN settled'[x] :
       (settled'[x][t].permissions # settled[x][t].permissions
          \/ settled'[x][t].state # settled[x][t].state) =>
         \/ /\ IsController(x, t)
            /\ \/ \E params \in UpdateParams, ok \in BOOLEAN : Update(x, t, params, ok)
               \/ \E params \in UpgradeParams, ok \in BOOLEAN : Upgrade(x, t, params, ok)
         \/ /\ ~IsController(x, t)
            /\ \E m \in net, keep \in BOOLEAN :
                 /\ m.from = Other(x) /\ m.topic = t
                 /\ OnUpdate(m, keep) \/ OnUpgrade(m, keep)]_vars

\* the non-controller's raw request was published and the controller has
\* processed it, its record as it was at settlement
C35_Witness ==
  /\ last.op = "send" /\ last.result = "returned"
  /\ nextId[last.peer] = 3 /\ nextId[Other(last.peer)] = 2
  /\ net = {}
  /\ \E t \in DOMAIN settled[last.peer] : ~IsController(last.peer, t)
  /\ \E t \in DOMAIN settled[Other(last.peer)] :
       /\ settled[Other(last.peer)][t].state.accounts = <<"a1">>
       /\ settled[Other(last.peer)][t].permissions.chains = <<"c1">>

\* C36: an update or upgrade call that rejects, for whatever reason, leaves
\* the caller's settled record as it was before the call
C36_AllOrNothing ==
  [][\A x \in Peers, ok \in BOOLEAN : \A t \in DOMAIN settled[x] :
       /\ \A params \in UpdateParams :
            (Update(x, t, params, ok) /\ last'.result # "returned") => settled'[x] = settled[x]
       /\ \A params \in UpgradeParams :
            (Upgrade(x, t, params, ok) /\ last'.result # "returned") => settled'[x] = settled[x]]_vars

\* settled.set has stored a record for the topic at peer x (the "settled"
\* event of its creation was emitted)
EverSettled(x, t) == Count(events[x], <<"settled", t, 0>>) > 0

\* C37: settle comes before the announcement: an approve request is published
\* with the responder's settled record in place, every approve request in
\* flight names a topic its sender has settled, and the initiator publishes a
\* success acknowledgement only after it settled the topic of the outcome
C37_SettleBeforeAnnounce ==
  /\ [](\A m \in net : m.method = "wc_sessionApprove" => EverSettled(m.from, m.params.topic))
  /\ [][\A m \in net' \ net : m.method = "wc_sessionApprove" =>
          Has(settled'[m.from], m.params.topic)]_vars
  /\ [][\A task \in tasks :
          (OnResponseResume(task) /\ net' # net /\ ~isSessionFailed(task.outcome)) =>
            EverSettled(task.peer, task.outcome.topic)]_vars

\* the responder's approve was observed and the initiator's success
\* acknowledgement is in flight, both peers holding the settled record
C37_Witness ==
  /\ \E m \in net : /\ m.method = Absent /\ m.error = Absent
                    /\ m.topic = ProposalTopic /\ m.from = Initiator
  /\ \E t \in DOMAIN settled[Initiator] \cap DOMAIN settled[Responder] :
       EverSettled(Initiator, t) /\ EverSettled(Responder, t)
  /\ \A m \in net : m.method # "wc_sessionApprove"

\* C38: an inbound wc_sessionPayload that names a chainId the receiving
\* session's permissions do not list surfaces no request event
C38_InboundChainAuthorized ==
  [][\A m \in net, keep \in BOOLEAN :
       (/\ OnPayload(m, keep)
        /\ Has(settled[Other(m.from)], m.topic)
        /\ m.params.chainId # Absent
        /\ m.params.chainId \notin Granted(settled[Other(m.from)][m.topic]).chains)
       => /\ events' = events
          /\ tasks' = tasks]_vars

----------------------------------------------------------------------------
\* Relay server: SubscriptionService (the registry of socket subscriptions)
MaxSubs == 3                      \* subscriptions held at one time
Sockets == {"s1", "s2"}

\* subscriptions.filter(sub => sub.socketId !== socketId)
NotOfSocket(subs, socketId) == SelectSeq(subs, LAMBDA sub : sub.socketId # socketId)
TopicsOf(subs) == {subs[i].topic : i \in DOMAIN subs}

\* set(subscription): push the subscription under a fresh id
\* (generateRandomBytes32), then redis.setBroadcastChannel(topic); a topic has
\* a broadcast channel or has none
SubscriptionSet(topic, socketId) ==
  /\ Len(subscriptions) < MaxSubs
  /\ \E id \in (1 .. MaxSubs) \ {subscriptions[i].id : i \in DOMAIN subscriptions} :
       subscriptions' = Append(subscriptions, [id |-> id, topic |-> topic, socketId |-> socketId])
  /\ channels' = channels \cup {topic}
  /\ UNCHANGED <<scan, client>>

\* remove(id): redis.deleteBroadcastChannel for the topic of each subscription
\* with the id, then the subscriptions without it
SubscriptionRemove(id) ==
  /\ channels' = channels \ TopicsOf(SelectSeq(subscriptions, LAMBDA sub : sub.id = id))
  /\ subscriptions' = SelectSeq(subscriptions, LAMBDA sub : sub.id # id)
  /\ UNCHANGED <<scan, client>>

\* removeSocket(socketId): deletings = subscriptions.filter(sub =>
\* sub.socketId !== socketId), redis.deleteBroadcastChannel for the topic of
\* each, then the same filter is the new list
RemoveSocket(socketId) ==
  /\ channels' = channels \ TopicsOf(NotOfSocket(subscriptions, socketId))
  /\ subscriptions' = NotOfSocket(subscriptions, socketId)
  /\ UNCHANGED <<scan, client>>

SubscriptionNext ==
  \/ \E topic \in {"t1", "t2"}, socketId \in Sockets : SubscriptionSet(topic, socketId)
  \/ \E id \in 1 .. MaxSubs : SubscriptionRemove(id)
  \/ \E socketId \in Sockets : RemoveSocket(socketId)
SpecSubscription == Init /\ [][SubscriptionNext]_vars

\* C39: removeSocket(socketId) removes exactly the subscriptions of that
\* socket, deletes a broadcast channel only for a topic of a removed
\* subscription, and leaves every other socket's subscriptions and channels
\* as they were
C39_RemoveSocketFrame ==
  [][\A socketId \in Sockets :
       RemoveSocket(socketId) =>
         /\ subscriptions' = NotOfSocket(subscriptions, socketId)
         /\ channels \ channels' \subseteq
              TopicsOf(SelectSeq(subscriptions, LAMBDA sub : sub.socketId = socketId))
         /\ \A t \in TopicsOf(NotOfSocket(subscriptions, socketId)) :
              t \in channels => t \in channels']_vars

----------------------------------------------------------------------------
\* Relay server: RedisService.sscan, the cursor scan of a redis set
MaxPages == 2                     \* replies redis needs for one full iteration
MaxMembers == 2                   \* members in one reply
MaxCalls == 4                     \* client.sscan calls of one run
Null == "null"

\* the replies of one full iteration of the set, each a list of members
ScanPages ==
  UNION {[1 .. n -> UNION {[1 .. k -> {"a", "b", Null}] : k \in 0 .. MaxMembers}] :
           n \in 1 .. MaxPages}

\* result[1].map(m => { if (m != null) messages.push(m) })
NonNull(members) == SelectSeq(members, LAMBDA m : m # Null)

RECURSIVE Flatten(_)
Flatten(pages) == IF pages = <<>> THEN <<>> ELSE Head(pages) \o Flatten(Tail(pages))

\* sscan(key, match, pattern): a new promise and the first client.sscan(key, "0")
Sscan(pages) ==
  /\ scan.stage = "idle"
  /\ scan' = [stage |-> "scanning", pages |-> pages, cursor |-> 0, messages |-> <<>>,
              promise |-> "pending", value |-> <<>>, calls |-> 1]
  /\ UNCHANGED <<subscriptions, channels, client>>

\* recursiveSscanCB(err, result): reject on an error (reading result[1] then
\* throws); otherwise push the non-null members, resolve when the cursor is
\* "0", and call client.sscan with the cursor of the reply. The reply is
\* [next cursor, members]: redis answers cursor "0" with the first part of the
\* set and ends the iteration with the cursor "0"
RecursiveSscanCB(err) ==
  /\ scan.stage = "scanning"
  /\ scan.calls < MaxCalls
  /\ IF err
     THEN scan' = [scan EXCEPT !.stage = "threw",
                               !.promise = IF @ = "pending" THEN "rejected" ELSE @]
     ELSE LET result == [cursor |-> IF scan.cursor + 1 = Len(scan.pages) THEN 0
                                    ELSE scan.cursor + 1,
                         members |-> scan.pages[scan.cursor + 1]]
              messages == scan.messages \o NonNull(result.members)
              resolves == result.cursor = 0 /\ scan.promise = "pending"
          IN scan' = [scan EXCEPT !.messages = messages,
                                  !.promise = IF resolves THEN "resolved" ELSE @,
                                  !.value = IF resolves THEN messages ELSE @,
                                  !.cursor = result.cursor,
                                  !.calls = @ + 1]
  /\ UNCHANGED <<subscriptions, channels, client>>

SscanNext ==
  \/ \E pages \in ScanPages : Sscan(pages)
  \/ \E err \in BOOLEAN : RecursiveSscanCB(err)
SpecSscan == Init /\ [][SscanNext]_vars

\* C40: sscan follows the cursor of each reply until it is "0", then resolves
\* with every non-null member read, and from then on issues no scan call
C40_SscanTerminates ==
  /\ [](scan.promise = "resolved" => scan.value = NonNull(Flatten(scan.pages)))
  /\ [][scan'.promise = "resolved" => scan'.calls = scan.calls]_vars

====
